---- MODULE Spec2Model ----
(***************************************************************************)
(* Hybrid retrieval, routing and answer synthesis of the document question *)
(* answering backend (backend/rag).  Strings are sequences of one-character*)
(* strings so that lower(), strip(), substring tests and joins are computed*)
(* as the Python code computes them.                                       *)
(***************************************************************************)
EXTENDS Integers, Sequences, FiniteSets, TLC

VARIABLES
    router,             \* one call of classify_question: arguments and result
    collections,        \* table collections
    notebooks,          \* table notebooks
    document_metadata,  \* table document_metadata
    index_files,        \* data/faiss/<notebook_id>.index
    meta_files,         \* data/faiss/<notebook_id>.json
    chat_history,       \* tables chat_history and collection_chat_history
    next_id,            \* number of uuid4 identifiers handed out so far
    req,                \* the request handlers in flight, one per worker thread
    podcast_jobs,       \* table podcast_jobs: the committed rows
    conn,               \* database connections: their uncommitted updates
    job_threads         \* the threads started by POST /podcast/generate

\* the state of the podcast jobs
podcast_vars == <<podcast_jobs, conn, job_threads>>

vars == <<router, collections, notebooks, document_metadata, index_files,
          meta_files, chat_history, next_id, req, podcast_vars>>

\* Python None / SQL NULL
None == "None"

(***************************************************************************)
(* String primitives (str.lower, str.strip, the in operator, str.join)     *)
(***************************************************************************)
UpperCase ==
    <<"A","B","C","D","E","F","G","H","I","J","K","L","M",
      "N","O","P","Q","R","S","T","U","V","W","X","Y","Z">>

LowerCase ==
    <<"a","b","c","d","e","f","g","h","i","j","k","l","m",
      "n","o","p","q","r","s","t","u","v","w","x","y","z">>

LowerChar(c) ==
    IF \E i \in 1..26 : UpperCase[i] = c
    THEN LowerCase[CHOOSE i \in 1..26 : UpperCase[i] = c]
    ELSE c

Lower(s) == [i \in 1..Len(s) |-> LowerChar(s[i])]

IsSpace(c) == c \in {" ", "\n", "\t"}

Strip(s) ==
    IF \A i \in 1..Len(s) : IsSpace(s[i])
    THEN <<>>
    ELSE LET a == CHOOSE i \in 1..Len(s) :
                      /\ ~IsSpace(s[i])
                      /\ \A j \in 1..(i-1) : IsSpace(s[j])
             b == CHOOSE i \in 1..Len(s) :
                      /\ ~IsSpace(s[i])
                      /\ \A j \in (i+1)..Len(s) : IsSpace(s[j])
         IN  SubSeq(s, a, b)

\* pat in s
Contains(s, pat) ==
    \E i \in 0..(Len(s) - Len(pat)) :
        \A j \in 1..Len(pat) : s[i + j] = pat[j]

AnyIn(s, pats) == \E p \in pats : Contains(s, p)

RECURSIVE Join(_, _)
Join(sep, parts) ==
    IF parts = <<>> THEN <<>>
    ELSE IF Len(parts) = 1 THEN parts[1]
    ELSE parts[1] \o sep \o Join(sep, Tail(parts))

(***************************************************************************)
(* rag/question_router.py                                                  *)
(***************************************************************************)
P_how_many ==
    <<"h","o","w"," ","m","a","n","y">>

P_count ==
    <<"c","o","u","n","t">>

P_number_of ==
    <<"n","u","m","b","e","r"," ","o","f">>

P_list ==
    <<"l","i","s","t">>

P_show ==
    <<"s","h","o","w">>

P_which ==
    <<"w","h","i","c","h">>

P_document ==
    <<"d","o","c","u","m","e","n","t">>

P_documents ==
    <<"d","o","c","u","m","e","n","t","s">>

P_pdf ==
    <<"p","d","f">>

P_pdfs ==
    <<"p","d","f","s">>

P_file ==
    <<"f","i","l","e">>

P_files ==
    <<"f","i","l","e","s">>

P_case ==
    <<"c","a","s","e">>

P_order_date ==
    <<"o","r","d","e","r"," ","d","a","t","e">>

P_type ==
    <<"t","y","p","e">>

Q_HowManyDocuments ==
    <<"H","o","w"," ","m","a","n","y"," ","d","o","c","u","m","e","n","t","s"," ","d","o"," ","I"," ","h","a","v","e","?">>

Q_PenaltyClause ==
    <<"W","h","a","t"," ","i","s"," ","t","h","e"," ","p","e","n","a","l","t","y"," ","c","l","a","u","s","e","?">>

Q_ListCases ==
    <<"L","i","s","t"," ","a","l","l"," ","c","a","s","e","s">>

Q_WhichFiles ==
    <<"W","h","i","c","h"," ","f","i","l","e","s"," ","s","h","o","w"," ","t","h","e"," ","o","r","d","e","r"," ","d","a","t","e"," ","a","n","d"," ","t","y","p","e","?">>

Q_HowManyPages ==
    <<" ","h","o","w"," ","m","a","n","y"," ","p","a","g","e","s"," ">>

Q_CountCasePdfs ==
    <<"C","o","u","n","t"," ","t","h","e"," ","c","a","s","e","s"," ","i","n"," ","m","y"," ","P","D","F","s">>

Q_Specialist ==
    <<"W","h","o"," ","i","s"," ","t","h","e"," ","s","p","e","c","i","a","l","i","s","t","?">>

Q_NumberOfListed ==
    <<"N","u","m","b","e","r"," ","o","f"," ","l","i","s","t","e","d"," ","c","a","s","e","s">>

Questions ==
    {Q_HowManyDocuments,
     Q_PenaltyClause,
     Q_ListCases,
     Q_WhichFiles,
     Q_HowManyPages,
     Q_CountCasePdfs,
     Q_Specialist,
     Q_NumberOfListed}

DocumentWords == {P_document, P_documents, P_pdf, P_pdfs, P_file, P_files}

EntityNames == {"case", "document", "order_date", "document_type"}

\* a Python dict with string keys is a function on its key set
EmptyDict == [k \in {} |-> FALSE]

\* d.get(k, default)
DictGet(d, k, default) == IF k \in DOMAIN d THEN d[k] ELSE default

\* the optional argument available_entities: omitted (None) or a dict
NoAvailableEntities == [given |-> FALSE, dict |-> EmptyDict]

GivenEntities(d) == [given |-> TRUE, dict |-> d]

CountEntities(q) ==
    [k \in {"document", "case"} |->
        IF k = "document" THEN AnyIn(q, DocumentWords) ELSE Contains(q, P_case)]

ListEntities(q) ==
    [k \in {"case", "document", "order_date", "document_type"} |->
        CASE k = "case" -> Contains(q, P_case)
          [] k = "document" -> AnyIn(q, DocumentWords)
          [] k = "order_date" -> Contains(q, P_order_date)
          [] OTHER -> Contains(q, P_type)]

\* a fallback check that wants every detected entity populated
EntitiesPopulated_AllRequired(available, entities_required) ==
    \A e \in entities_required : DictGet(available, e, FALSE)

\* the populated-attribute check of the fallback block
EntitiesPopulated(available, entities_required) ==
    \E e \in entities_required : DictGet(available, e, FALSE)

classify_question(question, available_entities) ==
    LET available == IF available_entities.given
                     THEN available_entities.dict ELSE EmptyDict
        q == Strip(Lower(question))
        initial == [route |-> "semantic", operation |-> None,
                    entities |-> EmptyDict, fallback_to_semantic |-> FALSE]
        matched ==
            IF AnyIn(q, {P_how_many, P_count, P_number_of})
            THEN [initial EXCEPT !.route = "metadata", !.operation = "count",
                                 !.entities = CountEntities(q)]
            ELSE IF AnyIn(q, {P_list, P_show, P_which})
            THEN [initial EXCEPT !.route = "metadata", !.operation = "list",
                                 !.entities = ListEntities(q)]
            ELSE initial
        entities_required == {k \in DOMAIN matched.entities : matched.entities[k]}
    IN  IF matched.route = "metadata"
           /\ ~EntitiesPopulated(available, entities_required)
        THEN [matched EXCEPT !.route = "semantic", !.operation = None,
                             !.fallback_to_semantic = TRUE]
        ELSE matched

(***************************************************************************)
(* Bounds of the model                                                     *)
(***************************************************************************)
MaxNotebooks == 2      \* uploads over a behaviour (notebook ids 1..MaxNotebooks)

MaxCollections == 1    \* collections created over a behaviour

MaxChats == 1          \* conversations whose chat history rows are kept

NumWorkers == 2        \* request threads of the concurrent specification

MaxVectors == 3        \* length of a list of in-memory vectors

MaxJobs == 2           \* podcast jobs created over a behaviour

LongChunkChars == 3500 \* characters of one chunk of the long document

MaxWords == 3          \* words of an answer handed to the validator

Users == {"alice", "bob"}

NotebookIds == 1..MaxNotebooks

CollectionIds == 1..MaxCollections

Workers == 1..NumWorkers

JobIds == 1..MaxJobs

\* SQL NULL in an id column (ids are positive)
NULL == 0

(***************************************************************************)
(* rag/embedder.py: normalised embeddings, here unit vectors of the plane  *)
(***************************************************************************)
East == <<1, 0>>

North == <<0, 1>>

West == <<-1, 0>>

South == <<0, -1>>

\* model.encode(question, normalize_embeddings=True)
embed_query(question) ==
    IF question = Q_PenaltyClause THEN North ELSE East

\* IndexFlatL2: squared Euclidean distance
L2(a, b) == (a[1] - b[1]) * (a[1] - b[1]) + (a[2] - b[2]) * (a[2] - b[2])

(***************************************************************************)
(* Uploaded documents: chunk texts with their embeddings and the case      *)
(* number that metadata extraction stores for the document                 *)
(***************************************************************************)
T_Payment ==
    <<"p","a","y"," ","i","n"," ","3","0","d">>

T_Penalty ==
    <<"l","a","t","e",":"," ","5","%">>

T_Parties ==
    <<"A"," ","a","n","d"," ","B">>

T_Venue ==
    <<"v","e","n","u","e"," ","X">>

T_Notice ==
    <<"h","e","a","r","i","n","g"," ","s","e","t">>

T_Reply ==
    <<"r","e","p","l","y"," ","d","u","e">>

CN_Odd ==
    <<"B","e","n","c","h"," ","n","o","t"," ","y","e","t"," ","s","u","p","p","o","r","t","e","d">>

DT_Other ==
    <<"O","t","h","e","r">>

DT_Order ==
    <<"O","r","d","e","r">>

OD_Date ==
    <<"0","1","/","0","2","/","2","0","2","0">>

Chunk(text, embedding) == [text |-> text, embedding |-> embedding]

Doc_Contract ==
    [chunks |-> <<Chunk(T_Payment, East), Chunk(T_Penalty, North),
                  Chunk(T_Parties, West), Chunk(T_Venue, North)>>,
     case_number |-> <<>>, document_type |-> DT_Other, order_date |-> <<>>]

Doc_Notice ==
    [chunks |-> <<Chunk(T_Notice, South), Chunk(T_Reply, North)>>,
     case_number |-> CN_Odd, document_type |-> DT_Order, order_date |-> OD_Date]

\* a PDF without text
Doc_Empty ==
    [chunks |-> <<>>,
     case_number |-> <<>>, document_type |-> <<>>, order_date |-> <<>>]

UploadedDocuments == {Doc_Contract, Doc_Notice, Doc_Empty}

\* the questions asked in chat requests
ChatQuestions == {Q_HowManyDocuments, Q_PenaltyClause}

(***************************************************************************)
(* rag/vector_store.py                                                     *)
(***************************************************************************)
NoIndexFile == [exists |-> FALSE, vectors |-> <<>>]

NoMetaFile == [exists |-> FALSE, chunks |-> <<>>]

\* faiss.write_index of an IndexFlatL2 holding the embeddings in order
SavedIndex(vectors) ==
    [exists |-> TRUE,
     vectors |-> [i \in 1..Len(vectors) |-> vectors[i].embedding]]

\* json.dump of the chunk metadata, in the order supplied
SavedMeta(notebook_id, vectors, collection_id) ==
    [exists |-> TRUE,
     chunks |-> [i \in 1..Len(vectors) |->
                    [text |-> vectors[i].text,
                     notebook_id |-> notebook_id,
                     collection_id |-> collection_id,
                     chunk_index |-> i - 1]]]

NotLoaded == [loaded |-> FALSE, index |-> <<>>, metadata |-> <<>>]

\* a load that needs the index file only
load_vectors_IndexOnly(notebook_id) ==
    IF ~index_files[notebook_id].exists
    THEN NotLoaded
    ELSE [loaded |-> TRUE,
          index |-> index_files[notebook_id].vectors,
          metadata |-> meta_files[notebook_id].chunks]

load_vectors(notebook_id) ==
    IF ~index_files[notebook_id].exists \/ ~meta_files[notebook_id].exists
    THEN NotLoaded
    ELSE [loaded |-> TRUE,
          index |-> index_files[notebook_id].vectors,
          metadata |-> meta_files[notebook_id].chunks]

\* ordinals (0-based) of the index, nearest to q first
RECURSIVE Ranked(_, _, _)
Ranked(index, q, ordinals) ==
    IF ordinals = {} THEN <<>>
    ELSE LET best == CHOOSE i \in ordinals : \A j \in ordinals :
                         \/ L2(index[i + 1], q) < L2(index[j + 1], q)
                         \/ L2(index[i + 1], q) = L2(index[j + 1], q) /\ i <= j
         IN  <<best>> \o Ranked(index, q, ordinals \ {best})

\* index.search(q, k): k ordinals, padded with -1 when the index is smaller
index_search(index, q, k) ==
    LET ranked == Ranked(index, q, 0..(Len(index) - 1))
    IN  [i \in 1..k |->
            IF i <= Len(ranked)
            THEN [ordinal |-> ranked[i], distance |-> L2(index[ranked[i] + 1], q)]
            ELSE [ordinal |-> -1, distance |-> -1]]

RECURSIVE Ascending(_)
Ascending(ids) ==
    IF ids = {} THEN <<>>
    ELSE LET first == CHOOSE i \in ids : \A j \in ids : i <= j
         IN  <<first>> \o Ascending(ids \ {first})

\* the query without its user_id condition
get_collection_notebooks_AnyOwner(collection_id, user_id) ==
    Ascending({n.notebook_id : n \in
        {m \in notebooks : /\ collection_id # NULL
                           /\ m.collection_id = collection_id}})

\* SELECT notebook_id FROM notebooks WHERE collection_id = ? AND user_id = ?
get_collection_notebooks(collection_id, user_id) ==
    Ascending({n.notebook_id : n \in
        {m \in notebooks : /\ collection_id # NULL
                           /\ m.collection_id = collection_id
                           /\ m.user_id = user_id}})

(***************************************************************************)
(* rag/metadata_engine.py                                                  *)
(***************************************************************************)
S_NoCases ==
    <<"N","o"," ","c","a","s","e","s"," ","f","o","u","n","d"," ","i","n"," ","t","h","i","s"," ","c","o","l","l","e","c","t","i","o","n",".">>

S_Unsupported ==
    <<"M","e","t","a","d","a","t","a"," ","i","n","t","e","n","t"," ","r","e","c","o","g","n","i","z","e","d"," ","b","u","t"," ","n","o","t"," ","y","e","t"," ","s","u","p","p","o","r","t","e","d",".">>

S_TotalDocuments ==
    <<"T","o","t","a","l"," ","d","o","c","u","m","e","n","t","s",":"," ">>

S_Case ==
    <<"C","a","s","e",":"," ">>

S_Type ==
    <<","," ","T","y","p","e",":"," ">>

S_OrderDate ==
    <<","," ","O","r","d","e","r"," ","D","a","t","e",":"," ">>

S_NA ==
    <<"N","/","A">>

S_Unknown ==
    <<"U","n","k","n","o","w","n">>

S_Newline ==
    <<"\n">>

P_not_yet_supported ==
    <<"n","o","t"," ","y","e","t"," ","s","u","p","p","o","r","t","e","d">>

Digit == <<"0","1","2","3","4","5","6","7","8","9">>

\* str(n) of a natural number
RECURSIVE Str(_)
Str(n) == IF n < 10 THEN <<Digit[n + 1]>> ELSE Str(n \div 10) \o <<Digit[(n % 10) + 1]>>

\* x or default
Or(x, default) == IF x = <<>> THEN default ELSE x

\* WHERE collection_id = ? AND user_id = ?  on document_metadata
MetadataRows(collection_id, user_id) ==
    {m \in document_metadata : /\ collection_id # NULL
                               /\ m.collection_id = collection_id
                               /\ m.user_id = user_id}

RowOf(rows, document_id) == CHOOSE m \in rows : m.document_id = document_id

CaseLine(r) ==
    S_Case \o Or(r.case_number, S_NA) \o S_Type \o Or(r.document_type, S_Unknown)
        \o S_OrderDate \o Or(r.order_date, S_NA)

handle_metadata_intent(intent, collection_id, user_id) ==
    LET rows == MetadataRows(collection_id, user_id)
        order == Ascending({m.document_id : m \in rows})
    IN  IF intent.operation = "list" /\ DictGet(intent.entities, "case", FALSE)
        THEN IF rows = {} THEN S_NoCases
             ELSE Join(S_Newline, [i \in 1..Len(order) |-> CaseLine(RowOf(rows, order[i]))])
        ELSE IF intent.operation = "count"
        THEN S_TotalDocuments \o Str(Cardinality(rows))
        ELSE S_Unsupported

(***************************************************************************)
(* rag/llm.py and rag/intent_classifier.py: what the shared model returns  *)
(***************************************************************************)
S_NotMentionedDocument ==
    <<"N","o","t"," ","m","e","n","t","i","o","n","e","d"," ","i","n"," ","t","h","e"," ","d","o","c","u","m","e","n","t",".">>

S_NotMentionedDocuments ==
    <<"N","o","t"," ","m","e","n","t","i","o","n","e","d"," ","i","n"," ","t","h","e"," ","d","o","c","u","m","e","n","t","s",".">>

S_NoDocumentsFound ==
    <<"N","o"," ","d","o","c","u","m","e","n","t","s"," ","f","o","u","n","d",".">>

S_NoDocumentsProvided ==
    <<"N","o"," ","d","o","c","u","m","e","n","t","s"," ","p","r","o","v","i","d","e","d"," ","f","o","r"," ","a","n","s","w","e","r","i","n","g",".">>

P_not_mentioned ==
    <<"n","o","t"," ","m","e","n","t","i","o","n","e","d">>

S_ChunkSeparator ==
    <<"\n","\n">>

X_Refusal ==
    <<" ","N","o","t"," ","m","e","n","t","i","o","n","e","d"," ","i","n"," ","t","h","e"," ","d","o","c","u","m","e","n","t",".","\n">>

X_Answer ==
    <<" ","5","%"," ","m","o","n","t","h","l","y",".">>

X_AnswerNM ==
    <<"F","e","e"," ","n","o","t"," ","m","e","n","t","i","o","n","e","d",";"," ","5","%",".">>

X_Blank ==
    <<" ">>

Y_Synthesis ==
    <<" ","B","o","t","h"," ","s","a","y"," ","5","%","."," ">>

\* raw completions of the extraction prompt
ExtractTexts == {X_Refusal, X_Answer, X_AnswerNM, X_Blank}

\* raw completions of the synthesis prompt
SynthesisTexts == {Y_Synthesis}

\* a model call returns a completion or raises
Completion(text) == [ok |-> TRUE, text |-> text]

CallFailed == [ok |-> FALSE, text |-> <<>>]

Intent(intent_type, operation, entities) ==
    [intent_type |-> intent_type, operation |-> operation,
     entities |-> entities, filters |-> EmptyDict]

\* raw completions of the classifier prompt: JSON documents, or prose
JsonText(value) == [valid_json |-> TRUE, value |-> value]

ProseText == [valid_json |-> FALSE, value |-> <<>>]

ClassifierTexts ==
    {JsonText(Intent("semantic", "explain", EmptyDict)),
     JsonText(Intent("metadata", "count", [k \in {"document"} |-> TRUE])),
     JsonText(Intent("metadata", "list", [k \in {"case"} |-> TRUE])),
     JsonText(Intent("metadata", "filter", [k \in {"document_type"} |-> TRUE])),
     ProseText}

\* json.loads: the decoded value, or JSONDecodeError
json_loads(text) == [raised |-> ~text.valid_json, value |-> text.value]

(***************************************************************************)
(* A request in flight on a worker thread: the handler's arguments, its    *)
(* position, the locals of generate_answer and the calls made so far       *)
(***************************************************************************)
NoIntent == Intent(None, None, EmptyDict)

IdleRequest ==
    [op |-> "none", pc |-> "idle", status |-> 0,
     user_id |-> None, notebook_id |-> NULL, collection_id |-> NULL,
     question |-> <<>>,
     intent |-> NoIntent, notebook_ids |-> <<>>, idx |-> 0,
     partial_answers |-> <<>>, answer |-> <<>>, results |-> <<>>,
     loads |-> <<>>, embed_calls |-> 0, classifier_calls |-> 0,
     metadata_calls |-> 0, extract_calls |-> <<>>, synth_calls |-> <<>>,
     parse_error |-> FALSE, vectors |-> <<>>, loaded |-> NotLoaded,
     doc |-> Doc_Empty, skipped |-> <<>>, top_k |-> 0, context |-> <<>>]

NewRequest(op, user_id, notebook_id, collection_id, question) ==
    [IdleRequest EXCEPT !.op = op, !.pc = "start", !.user_id = user_id,
                        !.notebook_id = notebook_id,
                        !.collection_id = collection_id,
                        !.question = question]

\* the positions at which a thread is inside a call of the shared model
LlmPcs == {"classify", "extract", "extract_single", "synthesize"}

\* the handler returns a response
Respond(r, status) == [r EXCEPT !.pc = "done", !.status = status]

\* generate_answer (or handle_semantic_query) returns answer to its caller
Return(r, answer) == [Respond(r, 200) EXCEPT !.answer = answer]

\* an exception leaves generate_answer and the handler: HTTP 500
Raise(r) == Respond(r, 500)

\* the arguments with which the handler calls generate_answer
GaCollectionId(r) == IF r.op = "pdf_chat" THEN NULL ELSE r.collection_id

GaUserId(r) == IF r.op = "pdf_chat" THEN None ELSE r.user_id

GaNotebookId(r) == IF r.op = "pdf_chat" THEN r.notebook_id ELSE NULL

MAX_CHUNKS_PER_NOTEBOOK == 3

MAX_TEXT_CHARS == 6000

\* a context that is never cut
Truncate_Never(s, n) == s

\* context[:MAX_TEXT_CHARS]
Truncate(s, n) == IF Len(s) > n THEN SubSeq(s, 1, n) ELSE s

\* the ordinals of a search result that reference a chunk
RECURSIVE ValidOrdinals(_, _)
ValidOrdinals(hits, metadata) ==
    IF hits = <<>> THEN <<>>
    ELSE IF Head(hits).ordinal = -1 \/ Head(hits).ordinal >= Len(metadata)
    THEN ValidOrdinals(Tail(hits), metadata)
    ELSE <<Head(hits).ordinal>> \o ValidOrdinals(Tail(hits), metadata)

\* "\n\n".join of the selected chunk texts, cut to the character budget
ContextOf(ordinals, metadata) ==
    Truncate(Join(S_ChunkSeparator,
                  [i \in 1..Len(ordinals) |-> metadata[ordinals[i] + 1].text]),
             MAX_TEXT_CHARS)

\* a selection that drops a notebook whose nearest chunk is not an exact match
SelectChunks_Threshold(loaded, q) ==
    IF ~loaded.loaded \/ Len(loaded.index) = 0
    THEN <<>>
    ELSE IF index_search(loaded.index, q, 1)[1].distance > 0
    THEN <<>>
    ELSE ValidOrdinals(index_search(loaded.index, q, MAX_CHUNKS_PER_NOTEBOOK),
                       loaded.metadata)

\* the chunks one notebook contributes to a collection query
SelectChunks(loaded, q) ==
    IF ~loaded.loaded \/ Len(loaded.index) = 0
    THEN <<>>
    ELSE ValidOrdinals(index_search(loaded.index, q, MAX_CHUNKS_PER_NOTEBOOK),
                       loaded.metadata)

\* an extraction call in progress, and the call once ask_llm has returned
ExtractCall(nb_id, ordinals, context) ==
    [notebook_id |-> nb_id, ordinals |-> ordinals, context |-> context,
     returned |-> FALSE, raised |-> FALSE, answer |-> <<>>]

Answer(calls, answer) ==
    [calls EXCEPT ![Len(calls)] = [@ EXCEPT !.returned = TRUE, !.answer = answer]]

\* ask_llm raised instead of returning
Failed(calls) == [calls EXCEPT ![Len(calls)] = [@ EXCEPT !.raised = TRUE]]

\* a loop that calls the synthesizer whatever the partial answers are
AfterLoop_AlwaysSynthesize(r) ==
    [r EXCEPT !.pc = "synthesize",
              !.synth_calls = Append(@, r.partial_answers)]

\* after the loop over the notebooks: refusal, or the synthesis call
AfterLoop(r) ==
    IF r.partial_answers = <<>>
    THEN Return(r, S_NotMentionedDocuments)
    ELSE [r EXCEPT !.pc = "synthesize",
                   !.synth_calls = Append(@, r.partial_answers)]

\* a loop that embeds the question again for every notebook
RECURSIVE Loop_EmbedPerNotebook(_)
Loop_EmbedPerNotebook(r) ==
    IF r.idx > Len(r.notebook_ids)
    THEN AfterLoop(r)
    ELSE LET nb_id == r.notebook_ids[r.idx]
             loaded == load_vectors(nb_id)
             ordinals == SelectChunks(loaded, embed_query(r.question))
             r1 == [r EXCEPT !.loads = Append(@, nb_id),
                             !.embed_calls = IF r.idx > 1 THEN @ + 1 ELSE @]
         IN  IF ordinals = <<>>
             THEN Loop_EmbedPerNotebook([r1 EXCEPT !.idx = @ + 1,
                                                   !.skipped = Append(@, nb_id)])
             ELSE [r1 EXCEPT !.pc = "extract",
                             !.extract_calls = Append(@,
                                 ExtractCall(nb_id, ordinals,
                                             ContextOf(ordinals, loaded.metadata)))]

\* the loop over notebook_ids, up to the next extraction call
RECURSIVE Loop(_)
Loop(r) ==
    IF r.idx > Len(r.notebook_ids)
    THEN AfterLoop(r)
    ELSE LET nb_id == r.notebook_ids[r.idx]
             loaded == load_vectors(nb_id)
             ordinals == SelectChunks(loaded, embed_query(r.question))
             r1 == [r EXCEPT !.loads = Append(@, nb_id)]
         IN  IF ordinals = <<>>
             THEN Loop([r1 EXCEPT !.idx = @ + 1, !.skipped = Append(@, nb_id)])
             ELSE [r1 EXCEPT !.pc = "extract",
                             !.extract_calls = Append(@,
                                 ExtractCall(nb_id, ordinals,
                                             ContextOf(ordinals, loaded.metadata)))]

\* is the answer of the extractor kept as a partial answer
KeepsAnswer(op, answer) ==
    IF op = "handle_semantic_query"
    THEN ~Contains(Lower(answer), P_not_mentioned)
    ELSE answer # <<>> /\ ~Contains(Lower(answer), P_not_mentioned)

\* rag/similarity.py, single notebook: the ordinals of the TOP_K nearest chunks
TOP_K == 5

\* a single notebook search with the chunk count of the collection loop
SingleNotebookOrdinals_PerNotebook(loaded, q) ==
    IF ~loaded.loaded THEN <<>>
    ELSE ValidOrdinals(index_search(loaded.index, q, MAX_CHUNKS_PER_NOTEBOOK),
                       loaded.metadata)

SingleNotebookOrdinals(loaded, q) ==
    IF ~loaded.loaded THEN <<>>
    ELSE ValidOrdinals(index_search(loaded.index, q, TOP_K), loaded.metadata)

\* single notebook mode of generate_answer, up to the extraction call
SingleNotebook(r) ==
    LET loaded == load_vectors(GaNotebookId(r))
        ordinals == SingleNotebookOrdinals(loaded, embed_query(r.question))
        r1 == [r EXCEPT !.loads = Append(@, GaNotebookId(r)),
                        !.embed_calls = IF loaded.loaded THEN @ + 1 ELSE @]
    IN  IF ordinals = <<>>
        THEN Return(r1, S_NotMentionedDocument)
        ELSE [r1 EXCEPT !.pc = "extract_single",
                        !.extract_calls = Append(@,
                            ExtractCall(GaNotebookId(r), ordinals,
                                        ContextOf(ordinals, loaded.metadata)))]

\* the semantic part of generate_answer, up to the first model call
Semantic(r) ==
    IF GaCollectionId(r) # NULL /\ GaUserId(r) # None
    THEN LET notebook_ids == get_collection_notebooks(GaCollectionId(r), GaUserId(r))
         IN  IF notebook_ids = <<>>
             THEN Return(r, S_NotMentionedDocuments)
             ELSE Loop([r EXCEPT !.notebook_ids = notebook_ids,
                                 !.embed_calls = @ + 1,
                                 !.idx = 1])
    ELSE IF GaNotebookId(r) # NULL
    THEN SingleNotebook(r)
    ELSE Return(r, S_NoDocumentsProvided)

\* is the answer of the metadata engine final
MetadataHandled(answer) ==
    answer # <<>> /\ ~Contains(Lower(answer), P_not_yet_supported)

\* generate_answer from the intent on: metadata early exit or semantic search
AfterIntent(r, intent) ==
    LET r1 == [r EXCEPT !.intent = intent]
    IN  IF intent.intent_type = "metadata"
        THEN LET answer == handle_metadata_intent(intent, GaCollectionId(r), GaUserId(r))
                 r2 == [r1 EXCEPT !.metadata_calls = @ + 1]
             IN  IF MetadataHandled(answer) THEN Return(r2, answer) ELSE Semantic(r2)
        ELSE Semantic(r1)

\* generate_answer from its entry to the first model call
generate_answer(r) ==
    LET router_decision == classify_question(r.question, NoAvailableEntities)
    IN  IF router_decision.route = "metadata"
        THEN AfterIntent(r, Intent("metadata", router_decision.operation,
                                   router_decision.entities))
        ELSE [r EXCEPT !.pc = "classify", !.classifier_calls = @ + 1]

\* rag/semantic_engine.py from its entry to the first model call
handle_semantic_query(r) ==
    LET notebook_ids == get_collection_notebooks(r.collection_id, r.user_id)
    IN  IF notebook_ids = <<>>
        THEN Return(r, S_NoDocumentsFound)
        ELSE Loop([r EXCEPT !.notebook_ids = notebook_ids,
                            !.embed_calls = @ + 1,
                            !.idx = 1])

\* search_across_collection: the nearest chunk of every notebook that has one
RECURSIVE SearchNotebooks(_, _)
SearchNotebooks(notebook_ids, q) ==
    IF notebook_ids = <<>> THEN <<>>
    ELSE LET nb_id == Head(notebook_ids)
             loaded == load_vectors(nb_id)
             rest == SearchNotebooks(Tail(notebook_ids), q)
         IN  IF ~loaded.loaded \/ Len(loaded.index) = 0
             THEN rest
             ELSE LET hit == index_search(loaded.index, q, 1)[1]
                  IN  IF hit.ordinal = -1 \/ hit.ordinal >= Len(loaded.metadata)
                      THEN rest
                      ELSE <<[text |-> loaded.metadata[hit.ordinal + 1].text,
                              notebook_id |-> nb_id,
                              chunk_index |-> loaded.metadata[hit.ordinal + 1].chunk_index,
                              distance |-> hit.distance,
                              score |-> [num |-> 1, den |-> 1 + hit.distance]]>>
                           \o rest

search_across_collection(collection_id, q, user_id) ==
    SearchNotebooks(get_collection_notebooks(collection_id, user_id), q)

(***************************************************************************)
(* app.py: the request handlers                                            *)
(***************************************************************************)
\* SELECT 1 FROM collections WHERE collection_id=? AND user_id=?
OwnsCollection(user_id, collection_id) ==
    \E c \in collections : c.collection_id = collection_id /\ c.user_id = user_id

\* the notebook lookup without its user_id condition
OwnsNotebook_AnyUser(user_id, notebook_id) ==
    \E n \in notebooks : n.notebook_id = notebook_id

\* SELECT 1 FROM notebooks WHERE notebook_id=? AND user_id=?
OwnsNotebook(user_id, notebook_id) ==
    \E n \in notebooks : n.notebook_id = notebook_id /\ n.user_id = user_id

\* a worker thread takes the next request when it has answered the last one
Free(t) == req[t].pc = "idle"

\* the rows a chat handler inserts once generate_answer has returned
HistoryRows(r) ==
    IF r.pc = "done" /\ r.status = 200 /\ r.op = "pdf_chat"
    THEN {[chat |-> "chat_history", id |-> r.notebook_id, role |-> role] :
              role \in {"user", "assistant"}}
    ELSE IF r.pc = "done" /\ r.status = 200 /\ r.op = "collection_chat"
    THEN {[chat |-> "collection_chat_history", id |-> r.collection_id, role |-> role] :
              role \in {"user", "assistant"}}
    ELSE {}

\* the worker moves to r; a handler that has returned has written its rows
Step(t, r) ==
    /\ req' = [req EXCEPT ![t] = r]
    /\ chat_history' = chat_history \cup HistoryRows(r)

\* a handler that calls no model leaves its worker free for the next request
Answered(t) == req' = [req EXCEPT ![t] = IdleRequest]

\* the conversations whose rows are kept are bounded
ChatAllowed == Cardinality(chat_history) < 2 * MaxChats

\* POST /collections
create_collection(t, user_id) ==
    /\ Free(t)
    /\ next_id.collection <= MaxCollections
    /\ collections' = collections \cup
           {[collection_id |-> next_id.collection, user_id |-> user_id]}
    /\ next_id' = [next_id EXCEPT !.collection = @ + 1]
    /\ Answered(t)
    /\ UNCHANGED <<podcast_vars, router, notebooks, document_metadata, index_files, meta_files,
                   chat_history>>

\* POST /upload-pdf
upload_pdf(t, user_id, collection_id, doc, llm_ok) ==
    /\ Free(t)
    /\ next_id.notebook <= MaxNotebooks
    /\ LET notebook_id == next_id.notebook
       IN  IF doc.chunks = <<>>
           THEN \* Empty PDF
                /\ Answered(t)
                /\ UNCHANGED <<podcast_vars, notebooks, document_metadata, index_files,
                               meta_files, next_id>>
           ELSE IF collection_id # NULL /\ ~OwnsCollection(user_id, collection_id)
           THEN /\ Answered(t)
                /\ UNCHANGED <<podcast_vars, notebooks, document_metadata, index_files,
                               meta_files, next_id>>
           ELSE \* save_vectors, then ingest_document saves the vectors again
                /\ index_files' = [index_files EXCEPT ![notebook_id] = SavedIndex(doc.chunks)]
                /\ meta_files' = [meta_files EXCEPT ![notebook_id] =
                                      SavedMeta(notebook_id, doc.chunks, collection_id)]
                /\ next_id' = [next_id EXCEPT !.notebook = @ + 1]
                /\ IF llm_ok
                   THEN /\ document_metadata' = document_metadata \cup
                               {[document_id |-> notebook_id,
                                 user_id |-> user_id,
                                 collection_id |-> collection_id,
                                 case_number |-> doc.case_number,
                                 document_type |-> doc.document_type,
                                 order_date |-> doc.order_date]}
                        /\ notebooks' = notebooks \cup
                               {[notebook_id |-> notebook_id,
                                 user_id |-> user_id,
                                 collection_id |-> collection_id]}
                        /\ Answered(t)
                   ELSE \* extract_llm_metadata: the model call raises
                        /\ Answered(t)
                        /\ UNCHANGED <<podcast_vars, notebooks, document_metadata>>
    /\ UNCHANGED <<podcast_vars, router, collections, chat_history>>

\* a delete that unlinks the index file and leaves the chunk metadata file
DeletedFiles_IndexOnly(files, notebook_id, absent) ==
    IF "vectors" \in DOMAIN absent
    THEN [files EXCEPT ![notebook_id] = absent]
    ELSE files

\* delete_vectors
DeletedFiles(files, notebook_id, absent) == [files EXCEPT ![notebook_id] = absent]

\* DELETE /notebook/{notebook_id}
delete_notebook(t, user_id, notebook_id) ==
    /\ Free(t)
    /\ IF ~OwnsNotebook(user_id, notebook_id)
       THEN /\ Answered(t)
            /\ UNCHANGED <<podcast_vars, notebooks, chat_history, index_files, meta_files>>
       ELSE /\ notebooks' = {n \in notebooks : n.notebook_id # notebook_id}
            /\ chat_history' = {h \in chat_history :
                                    ~(h.chat = "chat_history" /\ h.id = notebook_id)}
            /\ index_files' = DeletedFiles(index_files, notebook_id, NoIndexFile)
            /\ meta_files' = DeletedFiles(meta_files, notebook_id, NoMetaFile)
            /\ Answered(t)
    /\ UNCHANGED <<podcast_vars, router, collections, document_metadata, next_id>>

\* DELETE /collection/{collection_id}/notebook/{notebook_id}
remove_notebook_from_collection(t, user_id, collection_id, notebook_id) ==
    /\ Free(t)
    /\ IF ~OwnsCollection(user_id, collection_id)
       THEN /\ Answered(t)
            /\ UNCHANGED notebooks
       ELSE IF ~OwnsNotebook(user_id, notebook_id)
       THEN /\ Answered(t)
            /\ UNCHANGED notebooks
       ELSE /\ notebooks' =
                {IF n.notebook_id = notebook_id /\ n.collection_id = collection_id
                 THEN [n EXCEPT !.collection_id = NULL] ELSE n : n \in notebooks}
            /\ Answered(t)
    /\ UNCHANGED <<podcast_vars, router, collections, document_metadata, index_files, meta_files,
                   chat_history, next_id>>

\* DELETE /collections/{collection_id}
\* a delete that leaves the notebooks of the collection linked to it
delete_collection_KeepMembers(t, user_id, collection_id) ==
    /\ Free(t)
    /\ IF ~OwnsCollection(user_id, collection_id)
       THEN /\ Answered(t)
            /\ UNCHANGED <<podcast_vars, notebooks, collections, chat_history>>
       ELSE /\ notebooks' = notebooks
            /\ collections' = {c \in collections : c.collection_id # collection_id}
            /\ chat_history' = {h \in chat_history :
                                    ~(h.chat = "collection_chat_history"
                                      /\ h.id = collection_id)}
            /\ Answered(t)
    /\ UNCHANGED <<podcast_vars, router, document_metadata, index_files, meta_files, next_id>>

delete_collection(t, user_id, collection_id) ==
    /\ Free(t)
    /\ IF ~OwnsCollection(user_id, collection_id)
       THEN /\ Answered(t)
            /\ UNCHANGED <<podcast_vars, notebooks, collections, chat_history>>
       ELSE /\ notebooks' =
                {IF n.collection_id = collection_id /\ n.user_id = user_id
                 THEN [n EXCEPT !.collection_id = NULL] ELSE n : n \in notebooks}
            /\ collections' = {c \in collections : c.collection_id # collection_id}
            /\ chat_history' = {h \in chat_history :
                                    ~(h.chat = "collection_chat_history"
                                      /\ h.id = collection_id)}
            /\ Answered(t)
    /\ UNCHANGED <<podcast_vars, router, document_metadata, index_files, meta_files, next_id>>

\* POST /pdf-chat up to the first model call
pdf_chat(t, user_id, notebook_id, question) ==
    /\ Free(t)
    /\ ChatAllowed
    /\ LET r == NewRequest("pdf_chat", user_id, notebook_id, NULL, question)
       IN  IF ~OwnsNotebook(user_id, notebook_id)
           THEN Step(t, Respond(r, 403))
           ELSE Step(t, generate_answer([r EXCEPT !.loads = Append(@, notebook_id)]))
    /\ UNCHANGED <<podcast_vars, router, collections, notebooks, document_metadata, index_files,
                   meta_files, next_id>>

\* POST /collection-chat up to the first model call
collection_chat(t, user_id, collection_id, question) ==
    /\ Free(t)
    /\ ChatAllowed
    /\ LET r == NewRequest("collection_chat", user_id, NULL, collection_id, question)
       IN  IF ~OwnsCollection(user_id, collection_id)
           THEN Step(t, Respond(r, 403))
           ELSE Step(t, generate_answer(r))
    /\ UNCHANGED <<podcast_vars, router, collections, notebooks, document_metadata, index_files,
                   meta_files, next_id>>

\* POST /collection/{collection_id}/search
search_collection(t, user_id, collection_id, question) ==
    /\ Free(t)
    /\ LET r == NewRequest("search_collection", user_id, NULL, collection_id, question)
       IN  IF ~OwnsCollection(user_id, collection_id)
           THEN Step(t, Respond(r, 403))
           ELSE LET results == search_across_collection(collection_id,
                                   embed_query(question), user_id)
                IN  Step(t, Respond([r EXCEPT !.embed_calls = @ + 1,
                                              !.results = results,
                                              !.loads = get_collection_notebooks(
                                                            collection_id, user_id)],
                                    200))
    /\ UNCHANGED <<podcast_vars, router, collections, notebooks, document_metadata, index_files,
                   meta_files, next_id>>

\* a direct call of rag/semantic_engine.py, up to the first model call
semantic_query(t, user_id, collection_id, question) ==
    /\ Free(t)
    /\ Step(t, handle_semantic_query(
                   NewRequest("handle_semantic_query", user_id, NULL,
                              collection_id, question)))
    /\ UNCHANGED <<podcast_vars, router, collections, notebooks, document_metadata, index_files,
                   meta_files, next_id>>

(***************************************************************************)
(* POST /upload-pdf and DELETE /notebook as the steps other threads can    *)
(* observe between their writes                                            *)
(***************************************************************************)
\* upload_pdf up to faiss.write_index of its first save_vectors
upload_pdf_index(t, user_id, collection_id, doc) ==
    /\ Free(t)
    /\ next_id.notebook <= MaxNotebooks
    /\ IF doc.chunks = <<>>
          \/ (collection_id # NULL /\ ~OwnsCollection(user_id, collection_id))
       THEN /\ Answered(t)
            /\ UNCHANGED <<podcast_vars, index_files, next_id>>
       ELSE /\ req' = [req EXCEPT ![t] =
                          [NewRequest("upload_pdf", user_id, next_id.notebook,
                                      collection_id, <<>>)
                              EXCEPT !.pc = "write_meta", !.doc = doc]]
            /\ index_files' = [index_files EXCEPT ![next_id.notebook] =
                                   SavedIndex(doc.chunks)]
            /\ next_id' = [next_id EXCEPT !.notebook = @ + 1]
    /\ UNCHANGED <<podcast_vars, router, collections, notebooks, document_metadata, meta_files,
                   chat_history>>

\* the first save_vectors writes the chunk metadata, without a collection
upload_pdf_meta(t) ==
    /\ req[t].op = "upload_pdf"
    /\ req[t].pc = "write_meta"
    /\ meta_files' = [meta_files EXCEPT ![req[t].notebook_id] =
                          SavedMeta(req[t].notebook_id, req[t].doc.chunks, NULL)]
    /\ req' = [req EXCEPT ![t] = [@ EXCEPT !.pc = "ingest"]]
    /\ UNCHANGED <<podcast_vars, router, collections, notebooks, document_metadata, index_files,
                   chat_history, next_id>>

\* ingest_document saves the vectors again, with the collection, and stores the
\* document metadata; then the notebooks row is inserted
upload_pdf_commit(t) ==
    /\ req[t].op = "upload_pdf"
    /\ req[t].pc = "ingest"
    /\ LET r == req[t]
       IN  /\ index_files' = [index_files EXCEPT ![r.notebook_id] =
                                  SavedIndex(r.doc.chunks)]
           /\ meta_files' = [meta_files EXCEPT ![r.notebook_id] =
                                 SavedMeta(r.notebook_id, r.doc.chunks, r.collection_id)]
           /\ document_metadata' = document_metadata \cup
                  {[document_id |-> r.notebook_id,
                    user_id |-> r.user_id,
                    collection_id |-> r.collection_id,
                    case_number |-> r.doc.case_number,
                    document_type |-> r.doc.document_type,
                    order_date |-> r.doc.order_date]}
           /\ notebooks' = notebooks \cup
                  {[notebook_id |-> r.notebook_id,
                    user_id |-> r.user_id,
                    collection_id |-> r.collection_id]}
    /\ Answered(t)
    /\ UNCHANGED <<podcast_vars, router, collections, chat_history, next_id>>

\* delete_notebook up to db.commit(): the rows are gone, the files are not
delete_notebook_rows(t, user_id, notebook_id) ==
    /\ Free(t)
    /\ IF ~OwnsNotebook(user_id, notebook_id)
       THEN /\ Answered(t)
            /\ UNCHANGED <<podcast_vars, notebooks, chat_history>>
       ELSE /\ notebooks' = {n \in notebooks : n.notebook_id # notebook_id}
            /\ chat_history' = {h \in chat_history :
                                    ~(h.chat = "chat_history" /\ h.id = notebook_id)}
            /\ req' = [req EXCEPT ![t] =
                          [NewRequest("delete_notebook", user_id, notebook_id,
                                      NULL, <<>>)
                              EXCEPT !.pc = "unlink_index"]]
    /\ UNCHANGED <<podcast_vars, router, collections, document_metadata, index_files, meta_files,
                   next_id>>

\* delete_vectors inside delete_notebook: the index file
delete_notebook_index(t) ==
    /\ req[t].op = "delete_notebook"
    /\ req[t].pc = "unlink_index"
    /\ index_files' = DeletedFiles(index_files, req[t].notebook_id, NoIndexFile)
    /\ req' = [req EXCEPT ![t] = [@ EXCEPT !.pc = "unlink_meta"]]
    /\ UNCHANGED <<podcast_vars, router, collections, notebooks, document_metadata, meta_files,
                   chat_history, next_id>>

\* delete_vectors inside delete_notebook: the chunk metadata file
delete_notebook_meta(t) ==
    /\ req[t].op = "delete_notebook"
    /\ req[t].pc = "unlink_meta"
    /\ meta_files' = DeletedFiles(meta_files, req[t].notebook_id, NoMetaFile)
    /\ Answered(t)
    /\ UNCHANGED <<podcast_vars, router, collections, notebooks, document_metadata, index_files,
                   chat_history, next_id>>

(***************************************************************************)
(* rag/vector_store.py called directly: save_vectors and delete_vectors    *)
(* touch the index file first and the chunk metadata file second           *)
(***************************************************************************)
\* save_vectors up to faiss.write_index; an empty list has no shape[1]
save_vectors_index(t, notebook_id, vectors, collection_id) ==
    /\ Free(t)
    /\ LET r == [NewRequest("save_vectors", None, notebook_id, collection_id, <<>>)
                    EXCEPT !.vectors = vectors]
       IN  IF vectors = <<>>
           THEN /\ req' = [req EXCEPT ![t] = Raise(r)]
                /\ UNCHANGED index_files
           ELSE /\ req' = [req EXCEPT ![t] = [r EXCEPT !.pc = "write_meta"]]
                /\ index_files' = [index_files EXCEPT ![notebook_id] = SavedIndex(vectors)]
    /\ UNCHANGED <<podcast_vars, router, collections, notebooks, document_metadata, meta_files,
                   chat_history, next_id>>

\* save_vectors from the metadata list to json.dump
save_vectors_meta(t) ==
    /\ req[t].op = "save_vectors"
    /\ req[t].pc = "write_meta"
    /\ meta_files' = [meta_files EXCEPT ![req[t].notebook_id] =
                          SavedMeta(req[t].notebook_id, req[t].vectors,
                                    req[t].collection_id)]
    /\ req' = [req EXCEPT ![t] = Respond(req[t], 200)]
    /\ UNCHANGED <<podcast_vars, router, collections, notebooks, document_metadata, index_files,
                   chat_history, next_id>>

\* delete_vectors: the index file is unlinked when it exists
delete_vectors_index(t, notebook_id) ==
    /\ Free(t)
    /\ req' = [req EXCEPT ![t] =
                  [NewRequest("delete_vectors", None, notebook_id, NULL, <<>>)
                      EXCEPT !.pc = "unlink_meta",
                             !.results = <<index_files[notebook_id].exists>>]]
    /\ index_files' = DeletedFiles(index_files, notebook_id, NoIndexFile)
    /\ UNCHANGED <<podcast_vars, router, collections, notebooks, document_metadata, meta_files,
                   chat_history, next_id>>

\* delete_vectors: the chunk metadata file is unlinked when it exists
delete_vectors_meta(t) ==
    /\ req[t].op = "delete_vectors"
    /\ req[t].pc = "unlink_meta"
    /\ meta_files' = DeletedFiles(meta_files, req[t].notebook_id, NoMetaFile)
    /\ req' = [req EXCEPT ![t] =
                  Respond([req[t] EXCEPT !.results =
                              Append(@, meta_files[req[t].notebook_id].exists)],
                          200)]
    /\ UNCHANGED <<podcast_vars, router, collections, notebooks, document_metadata, index_files,
                   chat_history, next_id>>

\* one call of load_vectors
load_vectors_call(t, notebook_id) ==
    /\ Free(t)
    /\ req' = [req EXCEPT ![t] =
                  Respond([NewRequest("load_vectors", None, notebook_id, NULL, <<>>)
                              EXCEPT !.loaded = load_vectors(notebook_id),
                                     !.loads = <<notebook_id>>],
                          200)]
    /\ UNCHANGED <<podcast_vars, router, collections, notebooks, document_metadata, index_files,
                   meta_files, chat_history, next_id>>

\* the handler has returned its response: the thread goes back to the pool
handler_returns(t) ==
    /\ req[t].pc = "done"
    /\ req' = [req EXCEPT ![t] = IdleRequest]
    /\ UNCHANGED <<podcast_vars, router, collections, notebooks, document_metadata, index_files,
                   meta_files, chat_history, next_id>>

\* classify_intent: the classifier call returns and generate_answer goes on
classifier_returns(t, completion) ==
    /\ req[t].pc = "classify"
    /\ IF ~completion.ok
       THEN Step(t, Raise(req[t]))
       ELSE IF json_loads(completion.text).raised
       THEN Step(t, Raise([req[t] EXCEPT !.parse_error = TRUE]))
       ELSE Step(t, AfterIntent(req[t], json_loads(completion.text).value))
    /\ UNCHANGED <<podcast_vars, router, collections, notebooks, document_metadata, index_files,
                   meta_files, next_id>>

\* ask_llm returns inside the loop over the notebooks of a collection
extraction_returns(t, completion) ==
    /\ req[t].pc = "extract"
    /\ LET r == req[t]
           answer == Strip(completion.text)
           nb_id == r.notebook_ids[r.idx]
       IN  IF ~completion.ok
           THEN Step(t, Raise([r EXCEPT !.extract_calls = Failed(@)]))
           ELSE Step(t, Loop([r EXCEPT
                    !.idx = @ + 1,
                    !.extract_calls = Answer(@, answer),
                    !.partial_answers =
                        IF KeepsAnswer(r.op, answer)
                        THEN Append(@, [notebook_id |-> nb_id, answer |-> answer])
                        ELSE @]))
    /\ UNCHANGED <<podcast_vars, router, collections, notebooks, document_metadata, index_files,
                   meta_files, next_id>>

\* ask_llm returns in single notebook mode: its answer is the final answer
single_extraction_returns(t, completion) ==
    /\ req[t].pc = "extract_single"
    /\ IF ~completion.ok
       THEN Step(t, Raise([req[t] EXCEPT !.extract_calls = Failed(@)]))
       ELSE Step(t, Return([req[t] EXCEPT
                               !.extract_calls = Answer(@, Strip(completion.text))],
                           Strip(completion.text)))
    /\ UNCHANGED <<podcast_vars, router, collections, notebooks, document_metadata, index_files,
                   meta_files, next_id>>

\* llm_generate_text returns the synthesis
synthesis_returns(t, completion) ==
    /\ req[t].pc = "synthesize"
    /\ IF ~completion.ok
       THEN Step(t, Raise(req[t]))
       ELSE Step(t, Return(req[t], Strip(completion.text)))
    /\ UNCHANGED <<podcast_vars, router, collections, notebooks, document_metadata, index_files,
                   meta_files, next_id>>

\* one call of the hard router
ClassifyQuestion ==
    /\ ~router.called
    /\ router' = [router EXCEPT !.called = TRUE,
                                !.result = classify_question(router.question,
                                                             router.available_entities)]
    /\ UNCHANGED <<podcast_vars, collections, notebooks, document_metadata, index_files,
                   meta_files, chat_history, next_id, req>>

(***************************************************************************)
(* Specifications                                                          *)
(***************************************************************************)
RouterIdle ==
    [question |-> Q_HowManyDocuments,
     available_entities |-> NoAvailableEntities,
     called |-> FALSE,
     result |-> classify_question(Q_PenaltyClause, NoAvailableEntities)]

\* the dicts a caller can pass as available_entities
AvailableEntitiesArgs ==
    {NoAvailableEntities} \cup
    {GivenEntities(d) : d \in UNION {[keys -> BOOLEAN] : keys \in SUBSET EntityNames}}

\* a row of podcast_jobs that has not been inserted
\* (a nullable text column holds <<>> for NULL or <<text>>)
NoJob ==
    [exists |-> FALSE, notebook_id |-> NULL, user_id |-> None, status |-> None,
     result |-> <<>>, error |-> <<>>, audio_path |-> <<>>]

\* the connection of get_repo(), one for the whole process, and the
\* connections of get_db(), one per call
SharedConn == 0

ConnIds == {SharedConn} \cup JobIds

\* a job thread that has not been started
NoThread == [pc |-> "none", notebook_id |-> NULL, script |-> <<>>, tts_failed |-> FALSE]

EmptyStore ==
    /\ collections = {}
    /\ notebooks = {}
    /\ document_metadata = {}
    /\ index_files = [n \in NotebookIds |-> NoIndexFile]
    /\ meta_files = [n \in NotebookIds |-> NoMetaFile]
    /\ chat_history = {}
    /\ next_id = [collection |-> 1, notebook |-> 1, job |-> 1]
    /\ req = [t \in Workers |-> IdleRequest]
    /\ podcast_jobs = [j \in JobIds |-> NoJob]
    /\ conn = [c \in ConnIds |-> <<>>]
    /\ job_threads = [j \in JobIds |-> NoThread]

\* the service after start-up: empty tables, no index files, idle workers
Init ==
    /\ router = RouterIdle
    /\ EmptyStore

ClassifierCompletions == {Completion(text) : text \in ClassifierTexts} \cup {CallFailed}

ExtractCompletions == {Completion(text) : text \in ExtractTexts} \cup {CallFailed}

SynthesisCompletions == {Completion(text) : text \in SynthesisTexts} \cup {CallFailed}

\* answering: alice creates collections and uploads documents, and both users
\* ask questions, one request at a time on worker 1
Next ==
    \/ create_collection(1, "alice")
    \/ \E c \in CollectionIds \cup {NULL}, d \in UploadedDocuments :
          upload_pdf(1, "alice", c, d, TRUE)
    \/ \E u \in Users, n \in NotebookIds, q \in ChatQuestions : pdf_chat(1, u, n, q)
    \/ \E u \in Users, c \in CollectionIds, q \in ChatQuestions :
          collection_chat(1, u, c, q)
    \/ \E u \in Users, c \in CollectionIds, q \in ChatQuestions :
          search_collection(1, u, c, q)
    \/ \E u \in Users, c \in CollectionIds, q \in ChatQuestions :
          semantic_query(1, u, c, q)
    \/ \E x \in ClassifierCompletions : classifier_returns(1, x)
    \/ \E x \in ExtractCompletions : extraction_returns(1, x)
    \/ \E x \in ExtractCompletions : single_extraction_returns(1, x)
    \/ \E x \in SynthesisCompletions : synthesis_returns(1, x)
    \/ handler_returns(1)

Spec == Init /\ [][Next]_vars

\* the registry: every handler that changes tables or index files
NextRegistry ==
    \/ \E u \in Users : create_collection(1, u)
    \/ \E u \in Users, c \in CollectionIds \cup {NULL}, d \in UploadedDocuments,
          llm_ok \in BOOLEAN : upload_pdf(1, u, c, d, llm_ok)
    \/ \E u \in Users, n \in NotebookIds : delete_notebook(1, u, n)
    \/ \E u \in Users, c \in CollectionIds, n \in NotebookIds :
          remove_notebook_from_collection(1, u, c, n)
    \/ \E u \in Users, c \in CollectionIds : delete_collection(1, u, c)

SpecRegistry == Init /\ [][NextRegistry]_vars

\* concurrent answering: pdf_chat and collection_chat are plain "def" handlers,
\* which the server runs on the threads of its pool, one request per thread
NextConc ==
    \/ create_collection(1, "alice")
    \/ \E c \in CollectionIds : upload_pdf(1, "alice", c, Doc_Contract, TRUE)
    \/ \E t \in Workers, n \in NotebookIds : pdf_chat(t, "alice", n, Q_PenaltyClause)
    \/ \E t \in Workers, c \in CollectionIds :
          collection_chat(t, "alice", c, Q_PenaltyClause)
    \/ \E t \in Workers :
          classifier_returns(t, Completion(JsonText(Intent("semantic", "explain",
                                                           EmptyDict))))
    \/ \E t \in Workers, x \in {Completion(X_Answer), CallFailed} :
          extraction_returns(t, x)
    \/ \E t \in Workers : single_extraction_returns(t, Completion(X_Answer))
    \/ \E t \in Workers : synthesis_returns(t, Completion(Y_Synthesis))
    \/ \E t \in Workers : handler_returns(t)

SpecConc == Init /\ [][NextConc]_vars

\* the chunk lists handed to save_vectors
ChunkLists == {d.chunks : d \in UploadedDocuments}

\* the vector store alone: one thread builds, loads and deletes indexes
NextStore ==
    \/ \E n \in NotebookIds, v \in ChunkLists, c \in CollectionIds \cup {NULL} :
          save_vectors_index(1, n, v, c)
    \/ save_vectors_meta(1)
    \/ \E n \in NotebookIds : delete_vectors_index(1, n)
    \/ delete_vectors_meta(1)
    \/ \E n \in NotebookIds : load_vectors_call(1, n)
    \/ handler_returns(1)

SpecStore == Init /\ [][NextStore]_vars

\* answering while the store changes: thread 1 answers questions of alice,
\* thread 2 uploads and deletes her notebooks step by step
NextInterleave ==
    \/ create_collection(2, "alice")
    \/ \E c \in CollectionIds : upload_pdf_index(2, "alice", c, Doc_Contract)
    \/ upload_pdf_meta(2)
    \/ upload_pdf_commit(2)
    \/ \E n \in NotebookIds : delete_notebook_rows(2, "alice", n)
    \/ delete_notebook_index(2)
    \/ delete_notebook_meta(2)
    \/ \E n \in NotebookIds : pdf_chat(1, "alice", n, Q_PenaltyClause)
    \/ \E c \in CollectionIds : collection_chat(1, "alice", c, Q_PenaltyClause)
    \/ classifier_returns(1, Completion(JsonText(Intent("semantic", "explain",
                                                        EmptyDict))))
    \/ \E x \in {Completion(X_Answer), Completion(X_Refusal)} :
          extraction_returns(1, x)
    \/ \E x \in ExtractCompletions : single_extraction_returns(1, x)
    \/ synthesis_returns(1, Completion(Y_Synthesis))
    \/ handler_returns(1)

SpecInterleave == Init /\ [][NextInterleave]_vars

\* the hard router applied to every question and every availability map
InitRouter ==
    /\ router \in {[RouterIdle EXCEPT !.question = q, !.available_entities = a] :
                       q \in Questions, a \in AvailableEntitiesArgs}
    /\ EmptyStore

NextRouter == ClassifyQuestion

SpecRouter == InitRouter /\ [][NextRouter]_vars

(***************************************************************************)
(* Properties                                                              *)
(***************************************************************************)
CountPatterns == {P_how_many, P_count, P_number_of}

ListPatterns == {P_list, P_show, P_which}

RouterQuestion == Strip(Lower(router.question))

\* C5: classify_question maps a question containing "how many", "count" or
\* "number of" to route metadata with operation count, a question containing
\* "list", "show" or "which" (and no count pattern) to route metadata with
\* operation list, and every other question to route semantic with no operation.
C5_RouterDeterminism ==
    router.called =>
        IF AnyIn(RouterQuestion, CountPatterns)
        THEN router.result.route = "metadata" /\ router.result.operation = "count"
        ELSE IF AnyIn(RouterQuestion, ListPatterns)
        THEN router.result.route = "metadata" /\ router.result.operation = "list"
        ELSE router.result.route = "semantic" /\ router.result.operation = None

\* the entity flags the router detected as true
DetectedEntities == {k \in DOMAIN router.result.entities : router.result.entities[k]}

\* is one of the detected entities marked populated by the caller
DetectedPopulated ==
    /\ router.available_entities.given
    /\ \E e \in DetectedEntities :
           /\ e \in DOMAIN router.available_entities.dict
           /\ router.available_entities.dict[e]

\* C6: when a count/list pattern matches and no detected entity is populated in
\* available_entities the result is route semantic, no operation,
\* fallback_to_semantic true; when a detected entity is populated the route is
\* metadata and fallback_to_semantic is false.
C6_RouterDemotion ==
    (router.called /\ AnyIn(RouterQuestion, CountPatterns \cup ListPatterns)) =>
        IF DetectedPopulated
        THEN /\ router.result.route = "metadata"
             /\ router.result.operation \in {"count", "list"}
             /\ ~router.result.fallback_to_semantic
        ELSE /\ router.result.route = "semantic"
             /\ router.result.operation = None
             /\ router.result.fallback_to_semantic

\* a matched question demoted although the caller reported populated attributes
C6_Witness ==
    /\ router.called
    /\ router.question = Q_ListCases
    /\ router.available_entities.given
    /\ DictGet(router.available_entities.dict, "document", FALSE)
    /\ ~DictGet(router.available_entities.dict, "case", FALSE)
    /\ router.result.fallback_to_semantic
    /\ router.result.entities["case"]

SeqRange(s) == {s[i] : i \in 1..Len(s)}

CountIntent == Intent("metadata", "count", [k \in {"document"} |-> TRUE])

ListCasesIntent == Intent("metadata", "list", [k \in {"case"} |-> TRUE])

\* C3: whatever was uploaded, removed from a collection or deleted, for every
\* collection id c and every user B, documentsIn(c, B) contains no notebook of
\* another owner, and the count and the case list of the metadata engine for
\* (c, B) cover exactly the attribute rows of B in c, never a row of another owner.
C3_OwnershipIsolation ==
    \A B \in Users, c \in CollectionIds :
        /\ \A n \in notebooks :
               n.user_id # B => n.notebook_id \notin SeqRange(get_collection_notebooks(c, B))
        /\ handle_metadata_intent(CountIntent, c, B) =
               S_TotalDocuments \o Str(Cardinality(
                   {m \in document_metadata : m.user_id = B /\ m.collection_id = c}))
        /\ \A m \in document_metadata :
               (/\ m.user_id # B
                /\ Contains(handle_metadata_intent(ListCasesIntent, c, B), CaseLine(m)))
               => \E own \in document_metadata :
                      /\ own.user_id = B
                      /\ own.collection_id = c
                      /\ CaseLine(own) = CaseLine(m)

\* bob's collection lists bob's notebook while alice has a notebook of her own
C3_Witness ==
    \E c \in collections, a \in notebooks, b \in notebooks :
        /\ c.user_id = "bob"
        /\ a.user_id = "alice"
        /\ b.user_id = "bob"
        /\ b.collection_id = c.collection_id
        /\ get_collection_notebooks(c.collection_id, "bob") = <<b.notebook_id>>
        /\ \E m \in document_metadata : m.document_id = a.notebook_id

\* the caller of request r owns the document or collection the request names
CallerOwnsTarget(r) ==
    IF r.op = "pdf_chat"
    THEN \E n \in notebooks : n.notebook_id = r.notebook_id /\ n.user_id = r.user_id
    ELSE \E c \in collections : c.collection_id = r.collection_id /\ c.user_id = r.user_id

\* request r made no index load, no embedding, no metadata query, no model call
NoEffect(r) ==
    /\ r.loads = <<>>
    /\ r.embed_calls = 0
    /\ r.classifier_calls = 0
    /\ r.metadata_calls = 0
    /\ r.extract_calls = <<>>
    /\ r.synth_calls = <<>>

\* C4: an answer request (pdf_chat, collection_chat) for a document or
\* collection the caller does not own is answered with HTTP 403 at once, has
\* loaded no index and called no model, and the step that answers 403 writes no
\* chat history row.
C4_AuthorizationFailure ==
    /\ [](\A t \in Workers :
            (req[t].op \in {"pdf_chat", "collection_chat"} /\ ~CallerOwnsTarget(req[t]))
            => (req[t].pc = "done" /\ req[t].status = 403 /\ NoEffect(req[t])))
    /\ [][\A t \in Workers :
            (req'[t] # req[t] /\ req'[t].status = 403) => chat_history' = chat_history]_vars

\* bob asked about alice's notebook and was refused
C4_Witness ==
    /\ req[1].op = "pdf_chat"
    /\ req[1].user_id = "bob"
    /\ req[1].status = 403
    /\ \E n \in notebooks : n.notebook_id = req[1].notebook_id /\ n.user_id = "alice"

\* the notebook has a persisted, non-empty index with its chunk metadata
HasIndex(nb) ==
    /\ index_files[nb].exists
    /\ meta_files[nb].exists
    /\ Len(index_files[nb].vectors) > 0

Min(a, b) == IF a < b THEN a ELSE b

IsPrefix(p, s) == Len(p) <= Len(s) /\ \A i \in 1..Len(p) : p[i] = s[i]

\* call e hands the extractor the local top chunks of notebook e.notebook_id:
\* min(3, n) distinct chunks of that notebook, none farther from the question
\* than a chunk left out, joined in that order
LocalTop(e, q) ==
    LET V == index_files[e.notebook_id].vectors
        M == meta_files[e.notebook_id].chunks
        chosen == SeqRange(e.ordinals)
    IN  /\ Len(e.ordinals) = Min(MAX_CHUNKS_PER_NOTEBOOK, Len(V))
        /\ Cardinality(chosen) = Len(e.ordinals)
        /\ chosen \subseteq 0..(Len(V) - 1)
        /\ \A o \in (0..(Len(V) - 1)) \ chosen, c \in chosen :
               L2(V[o + 1], q) >= L2(V[c + 1], q)
        /\ IsPrefix(e.context,
                    Join(S_ChunkSeparator,
                         [i \in 1..Len(e.ordinals) |-> M[e.ordinals[i] + 1].text]))
        /\ e.context # <<>>

\* the notebooks of a collection query whose turn in the loop has come
Reached(r) ==
    {r.notebook_ids[i] : i \in
        {j \in 1..Len(r.notebook_ids) :
            j < r.idx \/ (j = r.idx /\ r.pc = "extract")}}

CollectionQueryOps == {"collection_chat", "handle_semantic_query"}

\* C1: in a collection query every notebook of the collection with a non-empty
\* index gets, when its turn comes, exactly one extraction call on its own
\* nearest chunks (at most 3), whatever the distances in the other notebooks; a
\* query that returns from semantic search has reached every notebook of the
\* collection; the raw collection search returns, for every such notebook, a
\* candidate that is a nearest chunk of that notebook.
C1_PerDocumentGuarantee ==
    \A t \in Workers :
        LET r == req[t]
            q == embed_query(r.question)
            members == SeqRange(get_collection_notebooks(r.collection_id, r.user_id))
        IN  /\ (r.op \in CollectionQueryOps /\ r.embed_calls > 0) =>
                /\ SeqRange(r.notebook_ids) = members
                /\ \A nb \in Reached(r) : HasIndex(nb) =>
                       /\ Cardinality({i \in 1..Len(r.extract_calls) :
                                          r.extract_calls[i].notebook_id = nb}) = 1
                       /\ \A i \in 1..Len(r.extract_calls) :
                              r.extract_calls[i].notebook_id = nb
                              => LocalTop(r.extract_calls[i], q)
                /\ (r.pc = "done" /\ r.status = 200) => Reached(r) = members
            /\ (r.op = "search_collection" /\ r.status = 200) =>
                \A nb \in members : HasIndex(nb) =>
                    \E i \in 1..Len(r.results) :
                        /\ r.results[i].notebook_id = nb
                        /\ \A v \in SeqRange(index_files[nb].vectors) :
                               r.results[i].distance <= L2(v, q)
                        /\ \E c \in SeqRange(meta_files[nb].chunks) :
                               c.text = r.results[i].text

\* a collection query that returned after extracting from two notebooks, the
\* second without any chunk as near to the question as the first one's best
C1_Witness ==
    /\ req[1].op = "collection_chat"
    /\ req[1].pc = "done"
    /\ req[1].status = 200
    /\ Len(req[1].extract_calls) = 2
    /\ Len(req[1].extract_calls[1].ordinals) = 3
    /\ \E v \in SeqRange(index_files[req[1].extract_calls[1].notebook_id].vectors) :
           L2(v, embed_query(req[1].question)) = 0
    /\ \A v \in SeqRange(index_files[req[1].extract_calls[2].notebook_id].vectors) :
           L2(v, embed_query(req[1].question)) > 0

\* the answers the extractor returned to request r that are not the refusal sentinel
NonRefusals(r) ==
    {i \in 1..Len(r.extract_calls) :
        /\ r.extract_calls[i].returned
        /\ r.extract_calls[i].answer # S_NotMentionedDocument}

\* C2: a collection query calls the synthesizer at most once, never without a
\* partial answer and only after an extraction that is not the refusal
\* sentinel; a query over the notebooks of a collection that returns after
\* refusals only (or without any extraction) never called it and answers
\* exactly "Not mentioned in the documents.".
C2_SynthesisShortCircuit ==
    \A t \in Workers :
        LET r == req[t]
        IN  r.op \in CollectionQueryOps =>
                /\ Len(r.synth_calls) <= 1
                /\ r.synth_calls # <<>> =>
                       (r.synth_calls[1] # <<>> /\ NonRefusals(r) # {})
                /\ (/\ r.pc = "done"
                    /\ r.status = 200
                    /\ r.notebook_ids # <<>>
                    /\ NonRefusals(r) = {})
                   => (r.synth_calls = <<>> /\ r.answer = S_NotMentionedDocuments)

\* two notebooks were extracted, both refused, and the query returned
C2_Witness ==
    /\ req[1].op = "collection_chat"
    /\ req[1].pc = "done"
    /\ req[1].status = 200
    /\ Len(req[1].extract_calls) = 2
    /\ NonRefusals(req[1]) = {}
    /\ req[1].answer = S_NotMentionedDocuments

\* C7: when the completion of the classifier is not parseable as JSON, the
\* query is not aborted with an error and goes on with route semantic and no
\* operation.
C7_ClassifierMalformedOutput ==
    \A t \in Workers :
        req[t].parse_error =>
            /\ req[t].status # 500
            /\ req[t].intent.intent_type = "semantic"
            /\ req[t].intent.operation = None

\* request r went into semantic search: an index was searched for it
WentSemantic(r) == r.embed_calls > 0 \/ r.extract_calls # <<>>

\* C8: when generate_answer hands a metadata intent to the metadata engine, the
\* engine answers with a formatted string or with the "unsupported" sentinel;
\* on the sentinel the request goes on into semantic search, and on every
\* other non-empty string the request returns that string as its answer,
\* without any retrieval, extraction or synthesis.
C8_MetadataFallback ==
    \A t \in Workers :
        LET r == req[t]
            engine == handle_metadata_intent(r.intent, GaCollectionId(r), GaUserId(r))
        IN  (r.op \in {"pdf_chat", "collection_chat"} /\ r.metadata_calls > 0) =>
                /\ engine # <<>>
                /\ IF engine = S_Unsupported
                   THEN ~(r.pc = "done" /\ r.status = 200 /\ r.answer = engine)
                   ELSE /\ r.pc = "done"
                        /\ r.status = 200
                        /\ r.answer = engine
                        /\ ~WentSemantic(r)
                        /\ r.synth_calls = <<>>

\* C9: in a collection query, an extraction call that raises does not abort the
\* query: the query is not answered with an error, and it returns only after
\* the turn of every notebook of the collection has come.
C9_GracefulDegradation ==
    \A t \in Workers :
        LET r == req[t]
        IN  (/\ r.op \in CollectionQueryOps
             /\ \E i \in 1..Len(r.extract_calls) : r.extract_calls[i].raised)
            => /\ r.status # 500
               /\ r.pc = "done" => Reached(r) = SeqRange(r.notebook_ids)

\* the workers with a call to the shared generative model in progress
InModelCall == {t \in Workers : req[t].pc \in LlmPcs}

\* C10: across concurrent answer requests, at most one call to the shared
\* generative model (classifier, extractor or synthesizer) is in progress at
\* any time.
C10_ModelSerialization == Cardinality(InModelCall) <= 1

\* request r entered the single notebook mode of generate_answer: pdf_chat has
\* loaded the notebook once itself and similarity_search a second time
InSingleMode(r) == r.op = "pdf_chat" /\ Len(r.loads) >= 2

\* call e hands the extractor the TOP_K nearest chunks of its notebook, nearest
\* first, joined in that order
SingleTop(e, q) ==
    LET V == index_files[e.notebook_id].vectors
        M == meta_files[e.notebook_id].chunks
    IN  /\ Len(e.ordinals) = Min(TOP_K, Len(V))
        /\ Cardinality(SeqRange(e.ordinals)) = Len(e.ordinals)
        /\ SeqRange(e.ordinals) \subseteq 0..(Len(V) - 1)
        /\ \A i, j \in 1..Len(e.ordinals) :
               i < j => L2(V[e.ordinals[i] + 1], q) <= L2(V[e.ordinals[j] + 1], q)
        /\ \A o \in (0..(Len(V) - 1)) \ SeqRange(e.ordinals), c \in SeqRange(e.ordinals) :
               L2(V[o + 1], q) >= L2(V[c + 1], q)
        /\ IsPrefix(e.context,
                    Join(S_ChunkSeparator,
                         [i \in 1..Len(e.ordinals) |-> M[e.ordinals[i] + 1].text]))

\* C11: a question that reaches single notebook mode runs one search on that
\* notebook and at most one extraction call, on the TOP_K nearest chunks of the
\* notebook (compared with the files while they are still there), and never
\* the synthesizer; when it returns, its answer is the output of that one
\* extraction call as it is (a refusal included), or, when the search gave no
\* chunk because the index is gone, "Not mentioned in the document." without
\* any extraction call.
C11_SingleDocumentMode ==
    \A t \in Workers :
        LET r == req[t]
        IN  InSingleMode(r) =>
                /\ r.loads = <<r.notebook_id, r.notebook_id>>
                /\ r.embed_calls <= 1
                /\ r.synth_calls = <<>>
                /\ r.notebook_ids = <<>>
                /\ Len(r.extract_calls) <= 1
                /\ r.extract_calls = <<>> => ~HasIndex(r.notebook_id)
                /\ r.extract_calls # <<>> =>
                       /\ r.extract_calls[1].notebook_id = r.notebook_id
                       /\ HasIndex(r.notebook_id) =>
                              SingleTop(r.extract_calls[1], embed_query(r.question))
                /\ (r.pc = "done" /\ r.status = 200) =>
                       IF r.extract_calls = <<>>
                       THEN r.answer = S_NotMentionedDocument
                       ELSE /\ r.extract_calls[1].returned
                            /\ r.answer = r.extract_calls[1].answer

\* a single notebook question on a four-chunk notebook returned the refusal of
\* its extraction call
C11_Witness ==
    /\ InSingleMode(req[1])
    /\ req[1].pc = "done"
    /\ req[1].status = 200
    /\ Len(req[1].extract_calls) = 1
    /\ Len(req[1].extract_calls[1].ordinals) = 4
    /\ req[1].answer = S_NotMentionedDocument

\* the texts of a list of chunks or of chunk metadata, in order
TextsOf(chunks) == [i \in 1..Len(chunks) |-> chunks[i].text]

\* C13: for any chunk list, once save_vectors of a notebook is over,
\* load_vectors of the same notebook returns chunk metadata whose texts are
\* exactly the supplied texts, in the same order and the same count.
C13_RoundTrip ==
    \A t \in Workers :
        LET r == req[t]
            l == load_vectors(r.notebook_id)
        IN  (r.op = "save_vectors" /\ r.pc = "done") =>
                /\ l.loaded
                /\ TextsOf(l.metadata) = TextsOf(r.vectors)

\* the two files of notebook nb are absent
NoFiles(nb) == ~index_files[nb].exists /\ ~meta_files[nb].exists

\* C15: delete_vectors succeeds whether or not the files exist; when it is
\* over neither the index file nor the chunk metadata file exists and
\* load_vectors returns nothing; a call on a notebook without files (as after
\* a first call) changes no file.
C15_DeleteIdempotence ==
    /\ [](\A t \in Workers :
            LET r == req[t]
            IN  /\ r.op = "delete_vectors" => r.status # 500
                /\ (r.op = "delete_vectors" /\ r.pc = "done") =>
                       /\ r.status = 200
                       /\ NoFiles(r.notebook_id)
                       /\ load_vectors(r.notebook_id) = NotLoaded)
    /\ [][\A t \in Workers :
            (/\ req'[t] # req[t]
             /\ req'[t].op = "delete_vectors"
             /\ NoFiles(req'[t].notebook_id))
            => (index_files' = index_files /\ meta_files' = meta_files)]_vars

\* a second delete_vectors of a notebook is over: it found neither file
C15_Witness ==
    /\ req[1].op = "delete_vectors"
    /\ req[1].pc = "done"
    /\ req[1].status = 200
    /\ req[1].results = <<FALSE, FALSE>>
    /\ \E n \in NotebookIds : n # req[1].notebook_id /\ ~NoFiles(n)

\* request r is answered by semantic search: it is a direct semantic query, or
\* its intent is known and the metadata engine did not answer it
SemanticRouted(r) ==
    \/ r.op = "handle_semantic_query"
    \/ /\ r.op = "collection_chat"
       /\ r.intent # NoIntent
       /\ \/ r.intent.intent_type # "metadata"
          \/ ~MetadataHandled(handle_metadata_intent(r.intent, GaCollectionId(r),
                                                     GaUserId(r)))

\* C12: a collection query answered by semantic search on a collection without
\* notebooks returns the canonical refusal "Not mentioned in the documents.",
\* the same string on every code path, without an error and without any
\* embedding, index load, extraction or synthesis call.
C12_EmptyCollection ==
    \A t \in Workers :
        LET r == req[t]
        IN  (/\ SemanticRouted(r)
             /\ get_collection_notebooks(r.collection_id, r.user_id) = <<>>)
            => /\ r.pc = "done"
               /\ r.status = 200
               /\ r.answer = S_NotMentionedDocuments
               /\ r.embed_calls = 0
               /\ r.loads = <<>>
               /\ r.extract_calls = <<>>
               /\ r.synth_calls = <<>>

\* the notebooks for which request r made an extraction call
Extracted(r) == {r.extract_calls[i].notebook_id : i \in 1..Len(r.extract_calls)}

\* C14: load_vectors finds nothing for a notebook that lacks its index file or
\* its metadata file, the half-written and half-deleted states included; a
\* collection query that meets such a notebook does not fail: the notebook gets
\* no extraction call, the loop goes on with the next notebook, and a query that
\* returns has processed every notebook of its list.
C14_AbsentIndex ==
    /\ \A nb \in NotebookIds :
           (~index_files[nb].exists \/ ~meta_files[nb].exists)
               => load_vectors(nb) = NotLoaded
    /\ \A t \in Workers :
           LET r == req[t]
           IN  r.op \in CollectionQueryOps
               => /\ \A nb \in SeqRange(r.skipped) :
                         /\ nb \notin Extracted(r)
                         /\ nb \in Reached(r)
                         /\ ~HasIndex(nb)
                  /\ r.skipped # <<>> => r.status # 500
                  /\ Reached(r) = SeqRange(r.skipped) \cup Extracted(r)
                  /\ (r.pc = "done" /\ r.status = 200 /\ r.embed_calls > 0)
                         => Reached(r) = SeqRange(r.notebook_ids)

\* a collection query over two notebooks returned with an answer although the
\* files of the second notebook were gone when its turn came
C14_Witness ==
    \E t \in Workers :
        /\ req[t].op = "collection_chat"
        /\ req[t].pc = "done"
        /\ req[t].status = 200
        /\ Len(req[t].notebook_ids) = 2
        /\ req[t].skipped = <<req[t].notebook_ids[2]>>
        /\ Extracted(req[t]) = {req[t].notebook_ids[1]}
        /\ req[t].synth_calls # <<>>

\* POST /collection-chat: the response body built once generate_answer has
\* returned (the name column of the collection is not part of the model)
collection_chat_response(r) ==
    [answer |-> r.answer,
     collection_id |-> r.collection_id,
     sources |-> Len(get_collection_notebooks(r.collection_id, r.user_id))]

\* the notebooks whose extraction was kept as a partial answer, in loop order
Contributing(r) ==
    [i \in 1..Len(r.partial_answers) |-> r.partial_answers[i].notebook_id]

\* C16: the result of a synthesized collection answer carries, next to the
\* answer string, the list of the notebooks whose extraction was not a refusal
\* and fed the synthesis, and no skipped or refused notebook.
C16_Traceability ==
    \A t \in Workers :
        LET r == req[t]
            response == collection_chat_response(r)
        IN  (r.op = "collection_chat" /\ r.pc = "done" /\ r.status = 200
                 /\ r.synth_calls # <<>>)
            => /\ response.answer = r.answer
               /\ "contributing_document_ids" \in DOMAIN response
               /\ response.contributing_document_ids = Contributing(r)

\* ---------------------------------------------------------------------------
\* rag/similarity.py: search over a list of in-memory vectors
\* ---------------------------------------------------------------------------

Abs(x) == IF x < 0 THEN -x ELSE x

Dot(a, b) == a[1] * b[1] + a[2] * b[2]

\* np.linalg.norm of a vector that lies on an axis
Norm(a) == Abs(a[1]) + Abs(a[2])

\* np.dot(a, b) / (norm(a) * norm(b)); it is -1, 0 or 1 for vectors on the axes
cosine_similarity(a, b) == Dot(a, b) \div (Norm(a) * Norm(b))

\* the dicts a caller passes: a text, and an embedding unless it is missing
InMemoryVectors ==
    {[text |-> T_Payment, embedding |-> East],
     [text |-> T_Penalty, embedding |-> North],
     [text |-> T_Parties, embedding |-> <<0, 2>>],
     [text |-> T_Venue, embedding |-> West],
     [text |-> T_Notice]}

InMemoryVectorLists ==
    UNION {[1..n -> InMemoryVectors] : n \in 0..MaxVectors}

\* the values of the TOP_K argument: the default and what cuts a short list
TopKs == {1, 2, TOP_K}

\* the loop of case 3: one scored entry per vector that has an embedding
RECURSIVE Scored(_, _)
Scored(vectors, question_embedding) ==
    IF vectors = <<>> THEN <<>>
    ELSE LET v == Head(vectors)
             rest == Scored(Tail(vectors), question_embedding)
         IN  IF "embedding" \notin DOMAIN v
             THEN rest
             ELSE <<[text |-> v.text,
                     score |-> cosine_similarity(question_embedding, v.embedding),
                     source |-> "In-memory"]>> \o rest

\* list.sort(key=score, reverse=True): stable, equal scores keep their order
RECURSIVE InsertByScore(_, _)
InsertByScore(x, sorted) ==
    IF sorted = <<>> THEN <<x>>
    ELSE IF Head(sorted).score >= x.score
    THEN <<Head(sorted)>> \o InsertByScore(x, Tail(sorted))
    ELSE <<x>> \o sorted

RECURSIVE SortByScore(_)
SortByScore(scored) ==
    IF scored = <<>> THEN <<>>
    ELSE InsertByScore(scored[Len(scored)],
                       SortByScore(SubSeq(scored, 1, Len(scored) - 1)))

\* scored[:TOP_K]
FirstK(s, k) == IF Len(s) > k THEN SubSeq(s, 1, k) ELSE s

\* similarity_search(question, vectors, TOP_K=k) without notebook or collection
similarity_search(question, vectors, k) ==
    IF vectors # <<>> /\ "embedding" \in DOMAIN vectors[1]
    THEN FirstK(SortByScore(Scored(vectors, embed_query(question))), k)
    ELSE <<>>

\* a caller searches a list of in-memory vectors
similarity_search_call(t, question, vectors, k) ==
    /\ Free(t)
    /\ req' = [req EXCEPT ![t] =
                  [Respond(NewRequest("similarity_search", None, NULL, NULL, question),
                           200)
                      EXCEPT !.vectors = vectors,
                             !.top_k = k,
                             !.results = similarity_search(question, vectors, k)]]
    /\ UNCHANGED <<podcast_vars, router, collections, notebooks, document_metadata, index_files,
                   meta_files, chat_history, next_id>>

\* the in-memory search alone, over every bounded list of vectors
NextSearch ==
    \/ \E q \in {Q_PenaltyClause, Q_HowManyDocuments}, v \in InMemoryVectorLists,
          k \in TopKs :
          similarity_search_call(1, q, v, k)
    \/ handler_returns(1)

SpecSearch == Init /\ [][NextSearch]_vars

\* the positions of a list of in-memory vectors that carry an embedding
WithEmbedding(vectors) ==
    {i \in 1..Len(vectors) : "embedding" \in DOMAIN vectors[i]}

\* results are the k best of the vectors that carry an embedding: as many as
\* min(k, their number), each one a different vector with its text and cosine
\* score, no vector left out scores higher, in non-increasing order of score
IsTopK(results, vectors, q, k) ==
    LET E == WithEmbedding(vectors)
        score(i) == cosine_similarity(q, vectors[i].embedding)
    IN  /\ Len(results) = Min(k, Cardinality(E))
        /\ \A j \in 1..(Len(results) - 1) : results[j].score >= results[j + 1].score
        /\ \E f \in [1..Len(results) -> E] :
               /\ \A a, b \in 1..Len(results) : f[a] = f[b] => a = b
               /\ \A j \in 1..Len(results) :
                      /\ results[j].text = vectors[f[j]].text
                      /\ results[j].score = score(f[j])
               /\ \A i \in E \ {f[j] : j \in 1..Len(results)}, j \in 1..Len(results) :
                      score(i) <= results[j].score

\* C17: similarity_search on a list of in-memory vectors, without notebook or
\* collection id, returns at most TOP_K candidates: the vectors that carry an
\* embedding with the highest cosine score, ordered by non-increasing score.
C17_InMemorySearch ==
    \A t \in Workers :
        LET r == req[t]
        IN  (r.op = "similarity_search" /\ r.pc = "done")
            => IsTopK(r.results, r.vectors, embed_query(r.question), r.top_k)

\* the deterministic stage finds a count or list pattern in the question
PatternMatched(question) ==
    AnyIn(Strip(Lower(question)), CountPatterns \cup ListPatterns)

\* C18: generate_answer calls the generative classifier only for a question in
\* which the deterministic stage matched no count or list pattern; a question
\* that the router matched and demoted to semantic is answered by semantic
\* search and never handed to the metadata engine.
C18_ClassifierOnlyWithoutPattern ==
    \A t \in Workers :
        LET r == req[t]
        IN  r.op \in {"pdf_chat", "collection_chat"}
            => /\ r.classifier_calls > 0 => ~PatternMatched(r.question)
               /\ (/\ PatternMatched(r.question)
                   /\ classify_question(r.question,
                                        NoAvailableEntities).fallback_to_semantic)
                      => r.metadata_calls = 0

\* the extraction calls at the positions K, in call order, as partial answers
RECURSIVE Pick(_, _)
Pick(calls, K) ==
    IF calls = <<>> THEN <<>>
    ELSE LET n == Len(calls)
             front == Pick(SubSeq(calls, 1, n - 1), K)
         IN  IF n \in K
             THEN Append(front, [notebook_id |-> calls[n].notebook_id,
                                 answer |-> calls[n].answer])
             ELSE front

\* C19: what the synthesizer is handed are the outputs of the per-document
\* extraction calls that are not the refusal sentinel "Not mentioned in the
\* document.", one per contributing document, in processing order; an output
\* that is a genuine answer (not empty, not the sentinel) is never left out.
C19_SynthesizerInput ==
    \A t \in Workers :
        LET r == req[t]
            calls == r.extract_calls
            NotRefusal == {i \in 1..Len(calls) :
                              calls[i].returned /\ calls[i].answer # S_NotMentionedDocument}
            Genuine == {i \in NotRefusal : calls[i].answer # <<>>}
        IN  (r.op \in CollectionQueryOps /\ r.synth_calls # <<>>)
            => \E K \in SUBSET NotRefusal :
                   /\ Genuine \subseteq K
                   /\ r.synth_calls[1] = Pick(calls, K)

\* ---------------------------------------------------------------------------
\* Podcast jobs: POST /podcast/generate, GET /podcast/status, run_podcast_job
\* ---------------------------------------------------------------------------

\* what generate_podcast_script returns
P_Script ==
    <<"R","a","h","u","l",":"," ","H","i",".">>

P_NotebookContentNotFound ==
    <<"N","o","t","e","b","o","o","k"," ","c","o","n","t","e","n","t"," ","n","o","t"," ","f","o","u","n","d">>

P_AudioPath ==
    <<"j","o","b",".","w","a","v">>

ScriptCompletions == {Completion(P_Script), CallFailed}

\* load_texts: the chunk texts of the metadata file, [] if it is missing
load_texts(notebook_id) ==
    IF ~meta_files[notebook_id].exists
    THEN <<>>
    ELSE [i \in 1..Len(meta_files[notebook_id].chunks) |->
              meta_files[notebook_id].chunks[i].text]

\* UPDATE podcast_jobs SET ... WHERE id = job_id, as one statement
Update(job_id, columns) == [id |-> job_id, columns |-> columns]

\* the row after SET columns
SetColumns(row, columns) ==
    [k \in DOMAIN row |-> IF k \in DOMAIN columns THEN columns[k] ELSE row[k]]

\* the table after the statements of a transaction; a statement for an id that
\* has no row changes nothing
RECURSIVE Apply(_, _)
Apply(table, updates) ==
    IF updates = <<>> THEN table
    ELSE LET u == Head(updates)
             next == IF table[u.id].exists
                     THEN [table EXCEPT ![u.id] = SetColumns(@, u.columns)]
                     ELSE table
         IN  Apply(next, Tail(updates))

\* cur.execute(UPDATE ...) on connection c: the statement joins the open
\* transaction of that connection
execute(c, update) == conn' = [conn EXCEPT ![c] = Append(@, update)]

\* conn.commit(): every statement of the open transaction becomes visible
commit(c) ==
    /\ podcast_jobs' = Apply(podcast_jobs, conn[c])
    /\ conn' = [conn EXCEPT ![c] = <<>>]

\* conn.rollback(): every statement of the open transaction is dropped
rollback(c) ==
    /\ conn' = [conn EXCEPT ![c] = <<>>]
    /\ UNCHANGED podcast_jobs

\* the job thread moves to position pc
Goto(j, pc) == job_threads' = [job_threads EXCEPT ![j].pc = pc]

StoreUnchanged ==
    UNCHANGED <<router, collections, notebooks, document_metadata, index_files,
                meta_files, chat_history>>

\* POST /podcast/generate: insert the pending job and start its thread
generate_podcast(t, user_id, notebook_id) ==
    /\ Free(t)
    /\ IF ~OwnsNotebook(user_id, notebook_id)
       THEN /\ req' = [req EXCEPT ![t] =
                          Respond(NewRequest("generate_podcast", user_id,
                                             notebook_id, NULL, <<>>), 403)]
            /\ UNCHANGED <<podcast_vars, next_id>>
       ELSE /\ next_id.job <= MaxJobs
            /\ LET job_id == next_id.job
               IN  /\ podcast_jobs' = [podcast_jobs EXCEPT ![job_id] =
                          [NoJob EXCEPT !.exists = TRUE,
                                        !.notebook_id = notebook_id,
                                        !.user_id = user_id,
                                        !.status = "pending"]]
                   /\ job_threads' = [job_threads EXCEPT ![job_id] =
                          [NoThread EXCEPT !.pc = "start",
                                           !.notebook_id = notebook_id]]
            /\ next_id' = [next_id EXCEPT !.job = @ + 1]
            /\ req' = [req EXCEPT ![t] =
                          Respond(NewRequest("generate_podcast", user_id,
                                             notebook_id, NULL, <<>>), 200)]
            /\ UNCHANGED conn
    /\ StoreUnchanged

\* GET /podcast/status/{job_id}: the status, and the script once it is ready
podcast_status(t, user_id, job_id) ==
    /\ Free(t)
    /\ LET row == podcast_jobs[job_id]
           r == NewRequest("podcast_status", user_id, NULL, NULL, <<>>)
       IN  IF ~row.exists \/ row.user_id # user_id
           THEN req' = [req EXCEPT ![t] = Respond(r, 404)]
           ELSE req' = [req EXCEPT ![t] =
                           [Respond(r, 200) EXCEPT !.results =
                               <<[job_id |-> job_id,
                                  status |-> row.status,
                                  result |-> IF row.status \in {"script_ready", "done"}
                                             THEN row.result ELSE <<>>]>>]]
    /\ UNCHANGED <<podcast_vars, next_id>>
    /\ StoreUnchanged

\* run_podcast_job, step 1: UPDATE ... SET status = running on connection c
job_mark_running(j, c) ==
    /\ job_threads[j].pc = "start"
    /\ execute(c, Update(j, [status |-> "running"]))
    /\ Goto(j, "commit_running")
    /\ UNCHANGED <<podcast_jobs, req, next_id>>
    /\ StoreUnchanged

job_commit_running(j, c) ==
    /\ job_threads[j].pc = "commit_running"
    /\ commit(c)
    /\ Goto(j, "load")
    /\ UNCHANGED <<req, next_id>>
    /\ StoreUnchanged

\* step 2: load_texts; no text raises "Notebook content not found"
job_load_texts(j) ==
    /\ job_threads[j].pc = "load"
    /\ IF load_texts(job_threads[j].notebook_id) = <<>>
       THEN Goto(j, "failed")
       ELSE Goto(j, "generate")
    /\ UNCHANGED <<podcast_jobs, conn, req, next_id>>
    /\ StoreUnchanged

\* step 3: generate_podcast_script returns the script or raises
job_script_returns(j, completion) ==
    /\ job_threads[j].pc = "generate"
    /\ IF ~completion.ok
       THEN Goto(j, "failed")
       ELSE job_threads' = [job_threads EXCEPT ![j].pc = "save_script",
                                               ![j].script = <<completion.text>>]
    /\ UNCHANGED <<podcast_jobs, conn, req, next_id>>
    /\ StoreUnchanged

\* step 4: UPDATE ... SET status = script_ready, result = script
job_save_script(j, c) ==
    /\ job_threads[j].pc = "save_script"
    /\ execute(c, Update(j, [status |-> "script_ready",
                             result |-> job_threads[j].script]))
    /\ Goto(j, "commit_script")
    /\ UNCHANGED <<podcast_jobs, req, next_id>>
    /\ StoreUnchanged

job_commit_script(j, c) ==
    /\ job_threads[j].pc = "commit_script"
    /\ commit(c)
    /\ Goto(j, "tts")
    /\ UNCHANGED <<req, next_id>>
    /\ StoreUnchanged

\* steps 5 and 6: the audio segments and their concatenation succeed, or an
\* exception is caught by the inner handler, which only prints it
job_audio_returns(j, ok) ==
    /\ job_threads[j].pc = "tts"
    /\ IF ok
       THEN Goto(j, "save_audio")
       ELSE job_threads' = [job_threads EXCEPT ![j].pc = "finished",
                                               ![j].tts_failed = TRUE]
    /\ UNCHANGED <<podcast_jobs, conn, req, next_id>>
    /\ StoreUnchanged

\* step 7: UPDATE ... SET status = done, audio_path = ...
job_save_audio(j, c) ==
    /\ job_threads[j].pc = "save_audio"
    /\ execute(c, Update(j, [status |-> "done", audio_path |-> <<P_AudioPath>>]))
    /\ Goto(j, "commit_audio")
    /\ UNCHANGED <<podcast_jobs, req, next_id>>
    /\ StoreUnchanged

job_commit_audio(j, c) ==
    /\ job_threads[j].pc = "commit_audio"
    /\ commit(c)
    /\ Goto(j, "finished")
    /\ UNCHANGED <<req, next_id>>
    /\ StoreUnchanged

\* the outer handler of rag/podcast_worker.py: repo.conn.rollback()
job_rollback(j, c) ==
    /\ job_threads[j].pc = "failed"
    /\ rollback(c)
    /\ Goto(j, "save_error")
    /\ UNCHANGED <<req, next_id>>
    /\ StoreUnchanged

\* the outer handler of rag/podcast_worker_old.py: no rollback
job_except(j) ==
    /\ job_threads[j].pc = "failed"
    /\ Goto(j, "save_error")
    /\ UNCHANGED <<podcast_jobs, conn, req, next_id>>
    /\ StoreUnchanged

\* the outer handler: UPDATE ... SET status = error, error = str(e)
job_save_error(j, c) ==
    /\ job_threads[j].pc = "save_error"
    /\ execute(c, Update(j, [status |-> "error",
                             error |-> <<P_NotebookContentNotFound>>]))
    /\ Goto(j, "commit_error")
    /\ UNCHANGED <<podcast_jobs, req, next_id>>
    /\ StoreUnchanged

job_commit_error(j, c) ==
    /\ job_threads[j].pc = "commit_error"
    /\ commit(c)
    /\ Goto(j, "finished")
    /\ UNCHANGED <<req, next_id>>
    /\ StoreUnchanged

\* what the clients of the podcast endpoints do: alice uploads and deletes
\* notebooks, starts jobs and polls them
PodcastClient ==
    \/ upload_pdf(1, "alice", NULL, Doc_Contract, TRUE)
    \/ \E n \in NotebookIds : delete_notebook(1, "alice", n)
    \/ \E u \in Users, n \in NotebookIds : generate_podcast(1, u, n)
    \/ \E u \in Users, j \in JobIds : podcast_status(1, u, j)
    \/ handler_returns(1)

\* podcast jobs run by rag/podcast_worker.py: every thread works on the one
\* connection of get_repo()
NextPodcast ==
    \/ upload_pdf(1, "alice", NULL, Doc_Contract, TRUE)
    \/ \E n \in NotebookIds : delete_notebook(1, "alice", n)
    \/ \E u \in Users, n \in NotebookIds : generate_podcast(1, u, n)
    \/ \E u \in Users, j \in JobIds : podcast_status(1, u, j)
    \/ handler_returns(1)
    \/ \E j \in JobIds : job_mark_running(j, SharedConn)
    \/ \E j \in JobIds : job_commit_running(j, SharedConn)
    \/ \E j \in JobIds : job_load_texts(j)
    \/ \E j \in JobIds, c \in ScriptCompletions : job_script_returns(j, c)
    \/ \E j \in JobIds : job_save_script(j, SharedConn)
    \/ \E j \in JobIds : job_commit_script(j, SharedConn)
    \/ \E j \in JobIds, ok \in BOOLEAN : job_audio_returns(j, ok)
    \/ \E j \in JobIds : job_save_audio(j, SharedConn)
    \/ \E j \in JobIds : job_commit_audio(j, SharedConn)
    \/ \E j \in JobIds : job_rollback(j, SharedConn)
    \/ \E j \in JobIds : job_save_error(j, SharedConn)
    \/ \E j \in JobIds : job_commit_error(j, SharedConn)

SpecPodcast == Init /\ [][NextPodcast]_vars

\* podcast jobs run by rag/podcast_worker_old.py: every thread opens its own
\* connection with get_db()
NextPodcastOld ==
    \/ PodcastClient
    \/ \E j \in JobIds : job_mark_running(j, j)
    \/ \E j \in JobIds : job_commit_running(j, j)
    \/ \E j \in JobIds : job_load_texts(j)
    \/ \E j \in JobIds, c \in ScriptCompletions : job_script_returns(j, c)
    \/ \E j \in JobIds : job_save_script(j, j)
    \/ \E j \in JobIds : job_commit_script(j, j)
    \/ \E j \in JobIds, ok \in BOOLEAN : job_audio_returns(j, ok)
    \/ \E j \in JobIds : job_save_audio(j, j)
    \/ \E j \in JobIds : job_commit_audio(j, j)
    \/ \E j \in JobIds : job_except(j)
    \/ \E j \in JobIds : job_save_error(j, j)
    \/ \E j \in JobIds : job_commit_error(j, j)

SpecPodcastOld == Init /\ [][NextPodcastOld]_vars

\* the status changes a podcast job may make
JobTransitions ==
    {<<"pending", "running">>, <<"running", "script_ready">>,
     <<"script_ready", "done">>, <<"pending", "error">>, <<"running", "error">>}

\* every change of a committed status is an allowed one
JobStatusStep ==
    \A j \in JobIds :
        (podcast_jobs[j].exists /\ podcast_jobs'[j].status # podcast_jobs[j].status)
            => <<podcast_jobs[j].status, podcast_jobs'[j].status>> \in JobTransitions

\* C20: the status of a podcast job changes only along pending -> running ->
\* script_ready -> done, or to error from pending or running: never backward,
\* never to error after script_ready; a failure of the audio generation leaves
\* the job at script_ready; a poll that observes script_ready or done carries
\* the script.
C20_PodcastJobStateMachine ==
    /\ [][JobStatusStep]_vars
    /\ [](\A j \in JobIds :
              (job_threads[j].pc = "finished" /\ job_threads[j].tts_failed)
                  => podcast_jobs[j].status = "script_ready")
    /\ [](\A t \in Workers :
              (req[t].op = "podcast_status" /\ req[t].status = 200)
                  => \A i \in 1..Len(req[t].results) :
                         req[t].results[i].status \in {"script_ready", "done"}
                             => req[t].results[i].result # <<>>)

\* C21: a collection query whose synthesis call was made after at least one
\* per-document answer was kept does not end in an error when that call fails:
\* it returns with an answer sentence.
C21_SynthesizerFailure ==
    \A t \in Workers :
        LET r == req[t]
        IN  (/\ r.op \in CollectionQueryOps
             /\ r.synth_calls # <<>>
             /\ r.partial_answers # <<>>
             /\ r.pc = "done")
            => /\ r.status = 200
               /\ r.answer # <<>>

\* C22: the metadata engine answers from the attribute table alone: handling a
\* metadata intent adds no model call, no embedding and no index load, and when
\* the engine's answer is a supported one (not empty, not the "unsupported"
\* sentinel) generate_answer returns it without retrieval, extraction or
\* synthesis.
C22_MetadataRouteTerminal ==
    \A t \in Workers :
        LET r == req[t]
            engine == handle_metadata_intent(r.intent, GaCollectionId(r), GaUserId(r))
        IN  (/\ r.op \in {"pdf_chat", "collection_chat"}
             /\ r.metadata_calls > 0
             /\ engine # <<>>
             /\ engine # S_Unsupported)
            => /\ r.pc = "done"
               /\ r.status = 200
               /\ r.answer = engine
               /\ r.metadata_calls = 1
               /\ r.classifier_calls <= 1
               /\ r.embed_calls = 0
               /\ r.loads = IF r.op = "pdf_chat" THEN <<r.notebook_id>> ELSE <<>>
               /\ r.extract_calls = <<>>
               /\ r.synth_calls = <<>>

\* the notebooks without their collection_id: which documents exist, and whose
DocumentsOf(rows) == {[notebook_id |-> n.notebook_id, user_id |-> n.user_id] : n \in rows}

\* the registry while collections are filled, emptied and deleted
NextMembership ==
    \/ \E u \in Users : create_collection(1, u)
    \/ \E u \in Users, c \in CollectionIds \cup {NULL} :
          upload_pdf(1, u, c, Doc_Notice, TRUE)
    \/ \E u \in Users, n \in NotebookIds : delete_notebook(1, u, n)
    \/ \E u \in Users, c \in CollectionIds, n \in NotebookIds :
          remove_notebook_from_collection(1, u, c, n)
    \/ \E u \in Users, c \in CollectionIds : delete_collection(1, u, c)

SpecMembership == Init /\ [][NextMembership]_vars

\* a step that changes membership only: no document appears or disappears,
\* a collection_id changes to NULL or not at all, and no file changes
MembershipOnly ==
    /\ DocumentsOf(notebooks') = DocumentsOf(notebooks)
    /\ \A n \in notebooks' : n \in notebooks \/ n.collection_id = NULL
    /\ index_files' = index_files
    /\ meta_files' = meta_files

\* C23: removing a notebook from a collection and deleting a collection change
\* the registry only: the affected notebooks stay, with collection_id NULL,
\* every index file and chunk metadata file is unchanged, and afterwards the
\* collection no longer lists the affected notebooks.
C23_MembershipLeavesIndexes ==
    [][/\ \A u \in Users, c \in CollectionIds, n \in NotebookIds :
              remove_notebook_from_collection(1, u, c, n)
                  => /\ MembershipOnly
                     /\ (OwnsCollection(u, c) /\ OwnsNotebook(u, n))
                            => n \notin SeqRange(get_collection_notebooks(c, u))'
       /\ \A u \in Users, c \in CollectionIds :
              delete_collection(1, u, c)
                  => /\ MembershipOnly
                     /\ OwnsCollection(u, c)
                            => \A v \in Users : get_collection_notebooks(c, v)' = <<>>
      ]_vars

\* a notebook that was ingested into a collection is still there with its
\* files, and belongs to no collection any more
C23_Witness ==
    \E n \in notebooks, m \in document_metadata :
        /\ m.document_id = n.notebook_id
        /\ m.collection_id # NULL
        /\ n.collection_id = NULL
        /\ HasIndex(n.notebook_id)
        /\ get_collection_notebooks(m.collection_id, n.user_id) = <<>>

\* C24: a collection query over a collection that has notebooks embeds the
\* question exactly once, however many notebooks the collection has; no
\* collection query embeds it more than once.
C24_EmbedOnce ==
    \A t \in Workers :
        LET r == req[t]
        IN  r.op \in CollectionQueryOps
            => /\ r.embed_calls <= 1
               /\ r.notebook_ids # <<>> => r.embed_calls = 1
               /\ r.loads # <<>> => r.embed_calls = 1

\* a collection query has gone through two notebooks with one embedding
C24_Witness ==
    \E t \in Workers :
        /\ req[t].op \in CollectionQueryOps
        /\ req[t].pc = "done"
        /\ req[t].status = 200
        /\ Len(req[t].notebook_ids) = 2
        /\ Len(req[t].extract_calls) = 2
        /\ req[t].embed_calls = 1

\* ---------------------------------------------------------------------------
\* Contexts longer than the character budget
\* ---------------------------------------------------------------------------

\* a chunk text of LongChunkChars characters
T_Long == [i \in 1..LongChunkChars |-> "x"]

\* a document whose chunks, joined, exceed MAX_TEXT_CHARS
Doc_Long ==
    [chunks |-> <<Chunk(T_Long, North), Chunk(T_Long, East)>>,
     case_number |-> <<>>, document_type |-> DT_Other, order_date |-> <<>>]

\* answering over short and long documents
NextBudget ==
    \/ create_collection(1, "alice")
    \/ \E c \in CollectionIds, d \in {Doc_Long, Doc_Contract} :
          upload_pdf(1, "alice", c, d, TRUE)
    \/ \E n \in NotebookIds : pdf_chat(1, "alice", n, Q_PenaltyClause)
    \/ \E c \in CollectionIds : collection_chat(1, "alice", c, Q_PenaltyClause)
    \/ \E c \in CollectionIds : semantic_query(1, "alice", c, Q_PenaltyClause)
    \/ classifier_returns(1, Completion(JsonText(Intent("semantic", "explain",
                                                        EmptyDict))))
    \/ extraction_returns(1, Completion(X_Answer))
    \/ single_extraction_returns(1, Completion(X_Answer))
    \/ synthesis_returns(1, Completion(Y_Synthesis))
    \/ handler_returns(1)

SpecBudget == Init /\ [][NextBudget]_vars

\* the chunk texts call e selected, joined by blank lines
JoinedChunks(e) ==
    Join(S_ChunkSeparator,
         [i \in 1..Len(e.ordinals) |->
              meta_files[e.notebook_id].chunks[e.ordinals[i] + 1].text])

\* C25: in collection mode and in single notebook mode, every context handed to
\* the extractor is a prefix of the selected chunk texts joined by blank lines,
\* and is at most 6000 characters long: the whole join when that is within the
\* budget, its first 6000 characters otherwise.
C25_ContextBudget ==
    \A t \in Workers :
        \A i \in 1..Len(req[t].extract_calls) :
            LET e == req[t].extract_calls[i]
            IN  /\ Len(e.context) <= MAX_TEXT_CHARS
                /\ IsPrefix(e.context, JoinedChunks(e))
                /\ Len(e.context) = Min(MAX_TEXT_CHARS, Len(JoinedChunks(e)))

\* a single notebook question was handed a context cut to the budget
C25_Witness ==
    \E t \in Workers :
        /\ req[t].extract_calls # <<>>
        /\ Len(req[t].extract_calls[1].context) = MAX_TEXT_CHARS
        /\ Len(JoinedChunks(req[t].extract_calls[1])) > MAX_TEXT_CHARS
        /\ req[t].op = "pdf_chat"

\* ---------------------------------------------------------------------------
\* rag/similarity.py: search of one notebook, with scores
\* ---------------------------------------------------------------------------

\* the loop of case 2: one result per hit that references a chunk; the score
\* is float(1 - dist), kept as a fraction
RECURSIVE SingleResults(_, _, _)
SingleResults(hits, metadata, notebook_id) ==
    IF hits = <<>> THEN <<>>
    ELSE LET hit == Head(hits)
             rest == SingleResults(Tail(hits), metadata, notebook_id)
         IN  IF hit.ordinal = -1 \/ hit.ordinal >= Len(metadata)
             THEN rest
             ELSE <<[text |-> metadata[hit.ordinal + 1].text,
                     score |-> [num |-> 1 - hit.distance, den |-> 1],
                     notebook_id |-> notebook_id,
                     chunk_index |-> metadata[hit.ordinal + 1].chunk_index]>> \o rest

\* similarity_search(question, notebook_id=notebook_id, TOP_K=k)
similarity_search_notebook(question, notebook_id, k) ==
    LET loaded == load_vectors(notebook_id)
    IN  IF ~loaded.loaded THEN <<>>
        ELSE SingleResults(index_search(loaded.index, embed_query(question), k),
                           loaded.metadata, notebook_id)

\* a caller searches one notebook
similarity_search_notebook_call(t, notebook_id, question) ==
    /\ Free(t)
    /\ req' = [req EXCEPT ![t] =
                  [Respond(NewRequest("similarity_search", None, notebook_id, NULL,
                                      question), 200)
                      EXCEPT !.top_k = TOP_K,
                             !.results = similarity_search_notebook(question,
                                                                    notebook_id, TOP_K)]]
    /\ UNCHANGED <<podcast_vars, router, collections, notebooks, document_metadata,
                   index_files, meta_files, chat_history, next_id>>

\* the two searches that return scored candidates, over the same store
NextScore ==
    \/ create_collection(1, "alice")
    \/ \E c \in CollectionIds \cup {NULL}, d \in {Doc_Contract, Doc_Notice} :
          upload_pdf(1, "alice", c, d, TRUE)
    \/ \E c \in CollectionIds, q \in ChatQuestions : search_collection(1, "alice", c, q)
    \/ \E n \in NotebookIds, q \in ChatQuestions :
          similarity_search_notebook_call(1, n, q)
    \/ handler_returns(1)

SpecScore == Init /\ [][NextScore]_vars

\* the index distance of a scored candidate from the question
DistanceOf(candidate, question) ==
    L2(index_files[candidate.notebook_id].vectors[candidate.chunk_index + 1],
       embed_query(question))

\* C26: single notebook search and collection search turn an index distance
\* into a score by the same transform, score = 1 / (1 + distance): no score is
\* negative, and a smaller distance gives a higher score.
C26_UniformScore ==
    \A t \in Workers :
        LET r == req[t]
        IN  r.op \in {"similarity_search", "search_collection"}
            => \A i \in 1..Len(r.results) :
                   LET c == r.results[i]
                   IN  "notebook_id" \in DOMAIN c
                       => /\ c.score.den > 0
                          /\ c.score.num >= 0
                          /\ c.score.num * (1 + DistanceOf(c, r.question)) = c.score.den

\* ---------------------------------------------------------------------------
\* rag/answer_validator.py
\* ---------------------------------------------------------------------------

vague_phrases ==
    {<<"b","a","s","e","d"," ","o","n"," ","t","h","e"," ","i","n","f","o","r","m","a","t","i","o","n">>,
     <<"g","e","n","e","r","a","l","l","y"," ","s","p","e","a","k","i","n","g">>,
     <<"t","y","p","i","c","a","l","l","y">>,
     <<"u","s","u","a","l","l","y">>,
     <<"i","n"," ","m","a","n","y"," ","c","a","s","e","s">>,
     <<"i","t"," ","s","e","e","m","s">>,
     <<"i","t"," ","a","p","p","e","a","r","s">>,
     <<"m","i","g","h","t"," ","b","e">>,
     <<"c","o","u","l","d"," ","b","e">>,
     <<"p","o","s","s","i","b","l","y">>,
     <<"p","r","o","b","a","b","l","y">>}

\* str.split(): the runs of characters between whitespace, in order
RECURSIVE Split(_)
Split(s) ==
    IF s = <<>> THEN <<>>
    ELSE IF IsSpace(Head(s)) THEN Split(Tail(s))
    ELSE LET end == IF \E i \in 1..Len(s) : IsSpace(s[i])
                    THEN (CHOOSE i \in 1..Len(s) :
                              /\ IsSpace(s[i])
                              /\ \A j \in 1..(i - 1) : ~IsSpace(s[j])) - 1
                    ELSE Len(s)
         IN  <<SubSeq(s, 1, end)>> \o Split(SubSeq(s, end + 1, Len(s)))

\* an overlap test that asks for more than 3 shared words
TooFewShared_Four(context_words, answer_words) ==
    Cardinality(context_words \cap answer_words) <= 3

\* overlap < 3
TooFewShared(context_words, answer_words) ==
    Cardinality(context_words \cap answer_words) < 3

validate_answer(answer, context) ==
    IF answer = <<>> \/ Strip(answer) = <<>>
    THEN FALSE
    ELSE LET answer_lower == Lower(answer)
         IN  IF \E phrase \in vague_phrases : Contains(answer_lower, phrase)
             THEN FALSE
             ELSE LET context_words == {w : w \in SeqRange(Split(Lower(context)))}
                      answer_words == {w : w \in SeqRange(Split(answer_lower))}
                  IN  ~TooFewShared(context_words, answer_words)

\* the words answers are made of, and the answers: up to MaxWords words joined
\* by blanks, the empty answer and a blank one
AnswerWords ==
    {<<"p","a","y">>, <<"l","a","t","e">>, <<"F","e","e">>, <<"5","%">>, <<"I","t">>, <<"s","e","e","m","s">>}

ValidatorAnswers ==
    {Join(<<" ">>, ws) : ws \in UNION {[1..n -> AnswerWords] : n \in 1..MaxWords}}
        \cup {<<>>, <<" ", "\n">>}

ValidatorContexts ==
    {<<"P","a","y"," ","l","a","t","e"," ","f","e","e"," ","5","%">>,
     <<"p","a","y"," ","L","A","T","E">>,
     <<"i","t"," ","s","e","e","m","s"," ","p","a","y"," "," ","l","a","t","e","\n","f","e","e">>}

\* a caller validates an answer against the context it was extracted from
validate_answer_call(t, answer, context) ==
    /\ Free(t)
    /\ req' = [req EXCEPT ![t] =
                  [Respond(NewRequest("validate_answer", None, NULL, NULL, <<>>), 200)
                      EXCEPT !.answer = answer,
                             !.context = context,
                             !.results = <<validate_answer(answer, context)>>]]
    /\ UNCHANGED <<podcast_vars, router, collections, notebooks, document_metadata,
                   index_files, meta_files, chat_history, next_id>>

NextValidator ==
    \/ \E a \in ValidatorAnswers, c \in ValidatorContexts : validate_answer_call(1, a, c)
    \/ handler_returns(1)

SpecValidator == Init /\ [][NextValidator]_vars

\* the distinct lower-cased words of s: the maximal runs without whitespace
WordsOf(s) ==
    LET l == Lower(s)
    IN  {SubSeq(l, i, j) : <<i, j>> \in
            {p \in (1..Len(l)) \X (1..Len(l)) :
                /\ p[1] <= p[2]
                /\ \A k \in p[1]..p[2] : ~IsSpace(l[k])
                /\ p[1] = 1 \/ IsSpace(l[p[1] - 1])
                /\ p[2] = Len(l) \/ IsSpace(l[p[2] + 1])}}

\* C27: validate_answer returns False exactly when the answer is empty or only
\* whitespace, or contains one of the listed hedging phrases in any letter
\* case, or shares fewer than 3 distinct lower-cased whitespace-separated words
\* with the context; it returns True for every other answer.
C27_GroundingValidator ==
    \A t \in Workers :
        LET r == req[t]
            rejected ==
                \/ \A i \in 1..Len(r.answer) : IsSpace(r.answer[i])
                \/ \E phrase \in vague_phrases : Contains(Lower(r.answer), phrase)
                \/ Cardinality(WordsOf(r.answer) \cap WordsOf(r.context)) < 3
        IN  r.op = "validate_answer" => r.results = <<~rejected>>

\* an answer was accepted that shares exactly three words with the context,
\* one of them only when letter case is ignored
C27_Witness ==
    \E t \in Workers :
        /\ req[t].op = "validate_answer"
        /\ req[t].results = <<TRUE>>
        /\ Cardinality(WordsOf(req[t].answer) \cap WordsOf(req[t].context)) = 3
        /\ Lower(req[t].answer) # req[t].answer
        /\ \E w \in SeqRange(Split(req[t].answer)) :
                w \notin SeqRange(Split(req[t].context))

\* C28: after any sequence of upload, delete-document, remove-from-collection
\* and delete-collection, the count the Metadata Query Engine answers for a
\* collection and its owner is the number of documents the registry lists in
\* that collection for that owner, and the engine counts no document that was
\* deleted or removed from the collection.
C28_RegistryAndAttributesAgree ==
    \A u \in Users, c \in CollectionIds :
        LET listed == get_collection_notebooks(c, u)
        IN  /\ handle_metadata_intent(CountIntent, c, u)
                 = S_TotalDocuments \o Str(Len(listed))
            /\ \A m \in MetadataRows(c, u) :
                   \E i \in 1..Len(listed) : listed[i] = m.document_id

(***************************************************************************)
(* rag/vector_store.py under concurrent callers: load_vectors tests both   *)
(* files, then reads the index file, then reads the chunk metadata file;   *)
(* no lock is held over the three steps, nor over the two writes of        *)
(* save_vectors or the two unlinks of delete_vectors                       *)
(***************************************************************************)
\* load_vectors up to the two exists() tests
load_vectors_exists(t, notebook_id) ==
    /\ Free(t)
    /\ LET r == [NewRequest("load_vectors", None, notebook_id, NULL, <<>>)
                    EXCEPT !.loads = <<notebook_id>>]
       IN  IF ~index_files[notebook_id].exists \/ ~meta_files[notebook_id].exists
           THEN req' = [req EXCEPT ![t] = Respond(r, 200)]
           ELSE req' = [req EXCEPT ![t] = [r EXCEPT !.pc = "read_index"]]
    /\ UNCHANGED <<podcast_vars, router, collections, notebooks, document_metadata,
                   index_files, meta_files, chat_history, next_id>>

\* faiss.read_index: raises when the file is gone by now
load_vectors_read_index(t) ==
    /\ req[t].op = "load_vectors"
    /\ req[t].pc = "read_index"
    /\ LET file == index_files[req[t].notebook_id]
       IN  IF ~file.exists
           THEN req' = [req EXCEPT ![t] = Raise(req[t])]
           ELSE req' = [req EXCEPT ![t] =
                           [req[t] EXCEPT !.pc = "read_meta",
                                          !.loaded.index = file.vectors]]
    /\ UNCHANGED <<podcast_vars, router, collections, notebooks, document_metadata,
                   index_files, meta_files, chat_history, next_id>>

\* meta_path.read_text and the return of the pair
load_vectors_read_meta(t) ==
    /\ req[t].op = "load_vectors"
    /\ req[t].pc = "read_meta"
    /\ LET file == meta_files[req[t].notebook_id]
       IN  IF ~file.exists
           THEN req' = [req EXCEPT ![t] = Raise(req[t])]
           ELSE req' = [req EXCEPT ![t] =
                           Respond([req[t] EXCEPT !.loaded.loaded = TRUE,
                                                  !.loaded.metadata = file.chunks],
                                   200)]
    /\ UNCHANGED <<podcast_vars, router, collections, notebooks, document_metadata,
                   index_files, meta_files, chat_history, next_id>>

\* the chunk lists with which a document is built and rebuilt
BuiltChunkLists == {Doc_Contract.chunks, Doc_Notice.chunks}

\* thread 1 builds, rebuilds and deletes indexes while thread 2 loads them
NextStoreConc ==
    \/ \E n \in NotebookIds, v \in BuiltChunkLists : save_vectors_index(1, n, v, NULL)
    \/ save_vectors_meta(1)
    \/ \E n \in NotebookIds : delete_vectors_index(1, n)
    \/ delete_vectors_meta(1)
    \/ \E n \in NotebookIds : load_vectors_exists(2, n)
    \/ load_vectors_read_index(2)
    \/ load_vectors_read_meta(2)
    \/ \E t \in Workers : handler_returns(t)

SpecStoreConc == Init /\ [][NextStoreConc]_vars

\* load_vectors has returned a pair to thread t
LoadReturnedPair(t) ==
    /\ req[t].op = "load_vectors"
    /\ req[t].pc = "done"
    /\ req[t].status = 200
    /\ req[t].loaded.loaded

\* C29: whenever load_vectors returns an index together with chunks, also when
\* the load runs between the steps of a build, a rebuild or a delete of the
\* same document, the index holds as many vectors as there are chunks, and
\* index and chunks are those of one build, so that every ordinal of the index
\* references a chunk of that build.
C29_IndexAndChunksAgree ==
    \A t \in Workers :
        LoadReturnedPair(t) =>
            /\ Len(req[t].loaded.index) = Len(req[t].loaded.metadata)
            /\ \E v \in BuiltChunkLists :
                   /\ req[t].loaded.index = [i \in 1..Len(v) |-> v[i].embedding]
                   /\ \A i \in 1..Len(v) : req[t].loaded.metadata[i].text = v[i].text

\* ---------------------------------------------------------------------------
\* Podcast jobs under a fair scheduler: run_podcast_job runs on a thread of
\* its own (threading.Thread(...).start()), which the scheduler does not
\* starve, and the calls it waits for return or raise
\* ---------------------------------------------------------------------------

\* the next step of the thread of job j in rag/podcast_worker.py
JobStep(j) ==
    \/ job_mark_running(j, SharedConn)
    \/ job_commit_running(j, SharedConn)
    \/ job_load_texts(j)
    \/ \E c \in ScriptCompletions : job_script_returns(j, c)
    \/ job_save_script(j, SharedConn)
    \/ job_commit_script(j, SharedConn)
    \/ \E ok \in BOOLEAN : job_audio_returns(j, ok)
    \/ job_save_audio(j, SharedConn)
    \/ job_commit_audio(j, SharedConn)
    \/ job_rollback(j, SharedConn)
    \/ job_save_error(j, SharedConn)
    \/ job_commit_error(j, SharedConn)

SpecPodcastFair == SpecPodcast /\ \A j \in JobIds : WF_vars(JobStep(j))

\* the next step of the thread of job j in rag/podcast_worker_old.py
JobStepOld(j) ==
    \/ job_mark_running(j, j)
    \/ job_commit_running(j, j)
    \/ job_load_texts(j)
    \/ \E c \in ScriptCompletions : job_script_returns(j, c)
    \/ job_save_script(j, j)
    \/ job_commit_script(j, j)
    \/ \E ok \in BOOLEAN : job_audio_returns(j, ok)
    \/ job_save_audio(j, j)
    \/ job_commit_audio(j, j)
    \/ job_except(j)
    \/ job_save_error(j, j)
    \/ job_commit_error(j, j)

SpecPodcastOldFair == SpecPodcastOld /\ \A j \in JobIds : WF_vars(JobStepOld(j))

\* a step keeps the uncommitted status updates of the jobs other than j
KeepsOthersUpdates(j) ==
    \A c \in ConnIds :
        \A i \in 1..Len(conn[c]) :
            conn[c][i].id # j => \E k \in 1..Len(conn'[c]) : conn'[c][k] = conn[c][i]

\* a failing job's handler discards no other job's update
RollbackIsolated ==
    \A j \in JobIds :
        (job_threads[j].pc = "failed" /\ job_threads'[j].pc = "save_error")
            => KeepsOthersUpdates(j)

\* the status the execution of job j itself has determined
OwnStatus(j) ==
    IF job_threads[j].tts_failed THEN "script_ready"
    ELSE IF job_threads[j].script = <<>> THEN "error"
    ELSE "done"

\* the final status of every finished job is the one of its own execution
FinalStatusIsOwn ==
    \A j \in JobIds :
        job_threads[j].pc = "finished" => podcast_jobs[j].status = OwnStatus(j)

\* every started job eventually leaves pending and running
LeavesPendingRunning ==
    \A j \in JobIds :
        podcast_jobs[j].exists ~> podcast_jobs[j].status \notin {"pending", "running"}

\* C30: with several podcast jobs running over the shared repository
\* connection, the failure and rollback of one job never discards or changes
\* another job's status update, the final status of each job is determined by
\* its own execution only, and every started job eventually leaves pending and
\* running.
C30_PodcastJobIsolation ==
    /\ [][RollbackIsolated]_vars
    /\ []FinalStatusIsOwn
    /\ LeavesPendingRunning

====
